---- MODULE Spec2Model ----
(***************************************************************************)
(* State sync types of rs/types/types/src/state_sync.rs: the chunk id      *)
(* space, the protocol versions, the manifest tables and their codec, and  *)
(* the file group chunk mapping.                                           *)
(***************************************************************************)
EXTENDS Integers, Sequences, FiniteSets, TLC

VARIABLES
    chunk_id,           \* the u32 chunk id last handed to state_sync_chunk_type
    table_index,        \* the chunk_table index the id was made from, if any
    chunk,              \* the StateSyncChunk returned for chunk_id
    group,              \* the result of FileGroupChunks::get for a file group chunk
    version_arg,        \* the u32 last handed to StateSyncVersion::try_from
    version_res,        \* the Result<StateSyncVersion, u32> it returned
    file_group_chunks,  \* the FileGroupChunks value
    fgc_call,           \* the last FileGroupChunks method called, with its argument
    fgc_ret,            \* what that method returned
    new_args,           \* the arguments last handed to Manifest::new
    manifest,           \* the Manifest built from them
    meta_manifest,      \* the MetaManifest value
    wire,               \* the encoded bytes, as produced or as altered in transit
    decoded,            \* the result of decoding the bytes of wire
    readers,            \* per concurrent reader: its Manifest clone and what it last read
    root_hashes,        \* the hashes computed of the Manifest
    checkpoint,         \* the files of a checkpoint and the tables computed of them
    receiver,           \* the state of a node fetching a manifest by state sync
    fgc_built,          \* how file_group_chunks was constructed, and from what
    range_call,         \* the last ChunkInfo::byte_range call and what it returned
    fetch               \* the chunks of a state being fetched, each as verified

chunkVars == <<chunk_id, table_index, chunk, group>>
versionVars == <<version_arg, version_res>>
groupVars == <<fgc_call, fgc_ret>>
manifestVars == <<new_args, manifest, meta_manifest>>
codecVars == <<wire, decoded>>
sharingVars == <<readers>>
hashVars == <<root_hashes>>
builderVars == <<checkpoint>>
receiverVars == <<receiver>>
accessVars == <<fgc_built, range_call>>
fetchVars == <<fetch>>
protocolVars == <<sharingVars, hashVars, builderVars, receiverVars, accessVars, fetchVars>>
vars == <<chunkVars, versionVars, file_group_chunks, groupVars, manifestVars,
          codecVars, protocolVars>>

(***************************************************************************)
(* Bounds of the model.                                                    *)
(***************************************************************************)
\* How far around each boundary of the id space the sampled u32 values reach.
ProbeWidth == 3
\* The number of concurrent readers of a checkpoint's values.
NumReaders == 2
\* The number of files of a checkpoint.
MaxCheckpointFiles == 2
\* The longest file table whose hash input is compared with another's.
MaxComparedFiles == 2
\* The number of synthetic ids, counted up from FILE_GROUP_CHUNK_ID_OFFSET, that
\* a file group mapping may use as keys.
MaxGroups == 1
\* The longest index list of a file group.
MaxGroupLen == 2
\* The longest file_table handed to Manifest::new.
MaxFiles == 1
\* The longest chunk_table handed to Manifest::new.
MaxChunks == 2
\* The largest size_bytes of a file; chunk offsets stay below it.
MaxFileSize == 2
\* The largest size_bytes of a chunk.
MaxChunkSize == 1
\* The largest number of table entries (files plus chunks) of an encoded
\* manifest, and of hashes of an encoded meta-manifest.
MaxEncodedEntries == 2

(***************************************************************************)
(* Option<T> and Result<T, E>.                                             *)
(***************************************************************************)
None == [some |-> FALSE]
Some(v) == [some |-> TRUE, val |-> v]
Ok(v) == [ok |-> TRUE, val |-> v]
Err(e) == [ok |-> FALSE, err |-> e]

(***************************************************************************)
(* u32 as two 16-bit limbs, so that the whole range 0 .. 2^32 - 1 is       *)
(* representable and arithmetic keeps its 32-bit width.                    *)
(***************************************************************************)
LIMB == 2^16
U32(hi, lo) == [hi |-> hi, lo |-> lo]
U32_MAX == U32(LIMB - 1, LIMB - 1)
U32Lt(a, b) == a.hi < b.hi \/ (a.hi = b.hi /\ a.lo < b.lo)
U32Le(a, b) == a = b \/ U32Lt(a, b)
\* a - b on u32: the wrapped difference, and whether the subtraction underflowed
\* (a panic in a debug build, the wrapped value in a release build).
U32Sub(a, b) ==
    LET borrow == IF a.lo < b.lo THEN 1 ELSE 0
    IN  [val |-> U32((a.hi - b.hi - borrow + 2 * LIMB) % LIMB,
                     (a.lo - b.lo + LIMB) % LIMB),
         overflow |-> U32Lt(a, b)]
\* a + b on u32, with the same convention.
U32Add(a, b) ==
    LET carry == IF a.lo + b.lo >= LIMB THEN 1 ELSE 0
    IN  [val |-> U32((a.hi + b.hi + carry) % LIMB, (a.lo + b.lo) % LIMB),
         overflow |-> a.hi + b.hi + carry >= LIMB]
\* `n as u32` for a small non-negative n.
AsU32(n) == U32((n \div LIMB) % LIMB, n % LIMB)
\* `1 << k` on u32, 0 <= k < 32.
Shl1(k) == IF k < 16 THEN U32(0, 2^k) ELSE U32(2^(k - 16), 0)

\* The 16-bit values within ProbeWidth of c.
NearLimb(c) == {x \in (c - ProbeWidth)..(c + ProbeWidth) : 0 <= x /\ x < LIMB}
\* The sampled u32 values: those around 0, 2^30, 2^31 and 2^32 - 1, and the
\* values whose low limb is near its ends.
SampleU32 ==
    {U32(hi, lo) : hi \in NearLimb(0) \cup NearLimb(2^14) \cup NearLimb(2^15)
                          \cup NearLimb(LIMB - 1),
                   lo \in NearLimb(0) \cup NearLimb(LIMB - 1)}

(***************************************************************************)
(* The chunk id ranges.                                                    *)
(***************************************************************************)
FILE_CHUNK_ID_OFFSET == 1
FILE_GROUP_CHUNK_ID_OFFSET == Shl1(30)
MANIFEST_CHUNK_ID_OFFSET == Shl1(31)
\* const _: () = assert!(MANIFEST_CHUNK_ID_OFFSET > FILE_GROUP_CHUNK_ID_OFFSET)
OffsetsAssertion == U32Lt(FILE_GROUP_CHUNK_ID_OFFSET, MANIFEST_CHUNK_ID_OFFSET)

MetaManifestChunk == [kind |-> "MetaManifestChunk"]
FileChunk(d) == [kind |-> "FileChunk", index |-> d.val, overflow |-> d.overflow]
FileGroupChunk(id) == [kind |-> "FileGroupChunk", index |-> id]
ManifestChunk(d) == [kind |-> "ManifestChunk", index |-> d.val, overflow |-> d.overflow]
\* No arm of the match: rustc rejects a match that leaves a value out, so the
\* function has no such result; it is kept to make totality a checked fact.
NoArm == [kind |-> "NoArm"]

\* Faulty variant: the file chunk range ends at the offset itself.
FILE_CHUNK_END_INCLUSIVE_OffByOne == FILE_GROUP_CHUNK_ID_OFFSET
FILE_CHUNK_END_INCLUSIVE == U32Sub(FILE_GROUP_CHUNK_ID_OFFSET, U32(0, 1)).val
FILE_GROUP_CHUNK_END_INCLUSIVE == U32Sub(MANIFEST_CHUNK_ID_OFFSET, U32(0, 1)).val

InRangeInclusive(lo, x, hi) == U32Le(lo, x) /\ U32Le(x, hi)

\* Faulty variant: the id is returned without removing FILE_CHUNK_ID_OFFSET.
FileChunkArm_NoOffset(id) == FileChunk(U32Sub(id, U32(0, 0)))
FileChunkArm(id) == FileChunk(U32Sub(id, AsU32(FILE_CHUNK_ID_OFFSET)))
\* Faulty variant: the id is reduced to a position within the file group range.
FileGroupChunkArm_Reduced(id) ==
    FileGroupChunk(U32Sub(id, FILE_GROUP_CHUNK_ID_OFFSET).val)
\* Faulty variant: the lowest bit of the id is dropped.
FileGroupChunkArm_LowBitDropped(id) == FileGroupChunk(U32(id.hi, id.lo - (id.lo % 2)))
FileGroupChunkArm(id) == FileGroupChunk(id)
\* Faulty variant: the wrong offset is subtracted.
ManifestChunkArm_WrongOffset(id) ==
    ManifestChunk(U32Sub(id, FILE_GROUP_CHUNK_ID_OFFSET))
ManifestChunkArm(id) == ManifestChunk(U32Sub(id, MANIFEST_CHUNK_ID_OFFSET))

state_sync_chunk_type(id) ==
    IF id = U32(0, 0) THEN MetaManifestChunk
    ELSE IF InRangeInclusive(U32(0, 1), id, FILE_CHUNK_END_INCLUSIVE)
        THEN FileChunkArm(id)
    ELSE IF InRangeInclusive(FILE_GROUP_CHUNK_ID_OFFSET, id,
                             FILE_GROUP_CHUNK_END_INCLUSIVE)
        THEN FileGroupChunkArm(id)
    ELSE IF U32Le(MANIFEST_CHUNK_ID_OFFSET, id) THEN ManifestChunkArm(id)
    ELSE NoArm

\* "The chunk id of a file chunk is equal to its index in the chunk table plus 1."
file_chunk_id(i) == U32Add(i, AsU32(FILE_CHUNK_ID_OFFSET))

(***************************************************************************)
(* StateSyncVersion.                                                       *)
(***************************************************************************)
\* The variants in declaration order, which is the order of
\* StateSyncVersion::iter() and of the derived Ord.
StateSyncVersionIter == <<"V0", "V1", "V2", "V3">>
StateSyncVersions == {StateSyncVersionIter[i] : i \in 1..Len(StateSyncVersionIter)}
\* `version as u32`.
Discriminant(version) ==
    CASE version = "V0" -> 0
      [] version = "V1" -> 1
      [] version = "V2" -> 2
      [] version = "V3" -> 3
VersionAsU32(version) == AsU32(Discriminant(version))
\* The derived PartialOrd/Ord of a fieldless enum compares discriminants.
VersionLe(a, b) == Discriminant(a) <= Discriminant(b)

RECURSIVE try_from_loop(_, _)
try_from_loop(n, i) ==
    IF i > Len(StateSyncVersionIter) THEN Err(n)
    ELSE IF VersionAsU32(StateSyncVersionIter[i]) = n THEN Ok(StateSyncVersionIter[i])
    ELSE try_from_loop(n, i + 1)
\* Faulty variant: an unknown number falls back to the first variant.
try_from_Defaulting(n) ==
    IF try_from_loop(n, 1).ok THEN try_from_loop(n, 1) ELSE Ok(StateSyncVersionIter[1])
try_from(n) == try_from_loop(n, 1)

CURRENT_STATE_SYNC_VERSION == "V2"
\* Faulty variant: the maximum lags behind the newest variant.
MAX_SUPPORTED_STATE_SYNC_VERSION_Stale == "V2"
MAX_SUPPORTED_STATE_SYNC_VERSION == "V3"

(***************************************************************************)
(* FileGroupChunks: a BTreeMap<u32, Vec<u32>>, held as the sequence of its *)
(* entries in strictly ascending key order.                                *)
(***************************************************************************)
Entry(k, v) == [key |-> k, val |-> v]
\* The keys a mapping may use: the first synthetic ids, the last id of the file
\* group range, and one id of the file chunk range (new() takes any key).
GroupKeys ==
    {U32Add(FILE_GROUP_CHUNK_ID_OFFSET, AsU32(k)).val : k \in 0..(MaxGroups - 1)}
        \cup {FILE_GROUP_CHUNK_END_INCLUSIVE, U32(0, 1)}
\* The index lists: runs of chunk_table indices in descending order, so that the
\* order of a list is not the order of its values.
GroupValues == {[i \in 1..n |-> n - i] : n \in 1..MaxGroupLen}

U32Min(S) == CHOOSE k \in S : \A o \in S : U32Le(k, o)
RECURSIVE EntriesOf(_, _)
\* The entries of the map with key set S and values f, in ascending key order.
EntriesOf(S, f) ==
    IF S = {} THEN <<>>
    ELSE LET k == U32Min(S) IN <<Entry(k, f[k])>> \o EntriesOf(S \ {k}, f)
BTreeMaps ==
    {EntriesOf(DOMAIN f, f) : f \in UNION {[S -> GroupValues] : S \in SUBSET GroupKeys}}

\* Faulty variant: an index already listed by an earlier group is left out.
FileGroupChunks_new_Dedup(value) ==
    [i \in 1..Len(value) |->
        LET Fresh(x) == \A j \in 1..(i - 1) : \A n \in 1..Len(value[j].val) :
                            value[j].val[n] # x
        IN  Entry(value[i].key, SelectSeq(value[i].val, Fresh))]
\* Faulty variant: only the keys of the file group range are kept.
FileGroupChunks_new_InRangeOnly(value) ==
    LET InRange(e) == InRangeInclusive(FILE_GROUP_CHUNK_ID_OFFSET, e.key,
                                       FILE_GROUP_CHUNK_END_INCLUSIVE)
    IN  SelectSeq(value, InRange)
\* FileGroupChunks::new wraps the map as given.
FileGroupChunks_new(value) == value
FileGroupChunks_default == <<>>
FileGroupChunks_len(self) == Len(self)
\* Faulty variant: the keys from the largest down.
FileGroupChunks_keys_Reversed(self) == [i \in 1..Len(self) |-> self[Len(self) + 1 - i].key]
\* BTreeMap::keys: the keys in ascending order.
FileGroupChunks_keys(self) == [i \in 1..Len(self) |-> self[i].key]
FileGroupChunks_iter(self) == [i \in 1..Len(self) |-> <<self[i].key, self[i].val>>]
\* Faulty variant: the index list from its last index to its first.
FileGroupChunks_get_Reversed(self, id) ==
    IF \E i \in 1..Len(self) : self[i].key = id
    THEN LET v == self[CHOOSE i \in 1..Len(self) : self[i].key = id].val
         IN  Some([n \in 1..Len(v) |-> v[Len(v) + 1 - n]])
    ELSE None
\* BTreeMap::get(&id).
FileGroupChunks_get(self, id) ==
    IF \E i \in 1..Len(self) : self[i].key = id
    THEN Some(self[CHOOSE i \in 1..Len(self) : self[i].key = id].val)
    ELSE None
\* Faulty variant: the entry with the minimum key.
last_key_value_First(self) == IF Len(self) = 0 THEN None ELSE Some(self[1])
\* BTreeMap::last_key_value: the entry with the maximum key.
last_key_value(self) == IF Len(self) = 0 THEN None ELSE Some(self[Len(self)])
FileGroupChunks_last_chunk_id(self) ==
    LET last == last_key_value(self)
    IN  IF last.some THEN Some(last.val.key) ELSE None
FileGroupChunks_is_empty(self) == Len(self) = 0

(***************************************************************************)
(* Manifest, FileInfo, ChunkInfo and MetaManifest.                         *)
(***************************************************************************)
\* Faulty variant: a decimal megabyte.
DEFAULT_CHUNK_SIZE_Decimal == 10^6
\* The default chunk size, 1 MiB.
DEFAULT_CHUNK_SIZE == 2^20
\* The length of a hash, [u8; 32].
HASH_LEN == 32
\* Two hashes; their bytes stay below 128.
Hashes == {[i \in 1..HASH_LEN |-> (b + i) % 128] : b \in {0, 64}}
\* Two relative paths, as bytes: "a" and "b/c".
Paths == {<<97>>, <<98, 47, 99>>}

FileInfo(relative_path, size_bytes, hash) ==
    [relative_path |-> relative_path, size_bytes |-> size_bytes, hash |-> hash]
ChunkInfo(file_index, size_bytes, offset, hash) ==
    [file_index |-> file_index, size_bytes |-> size_bytes, offset |-> offset,
     hash |-> hash]
ManifestData(version, file_table, chunk_table) ==
    [version |-> version, file_table |-> file_table, chunk_table |-> chunk_table]
MetaManifest(version, sub_manifest_hashes) ==
    [version |-> version, sub_manifest_hashes |-> sub_manifest_hashes]

\* Faulty variant: the chunk table is left out.
Manifest_new_DropsChunks(version, file_table, chunk_table) ==
    ManifestData(version, file_table, <<>>)
\* Manifest::new wraps the three arguments, as given, in an Arc.
Manifest_new(version, file_table, chunk_table) ==
    ManifestData(version, file_table, chunk_table)

\* Faulty variant: the clone holds a copy without the chunk table.
Manifest_clone_Partial(self) == ManifestData(self.version, self.file_table, <<>>)
\* #[derive(Clone)] on Manifest(Arc<ManifestData>): Arc::clone, a second handle to
\* the same ManifestData.
Manifest_clone(self) == self
\* Deref: a shared reference to the ManifestData behind the Arc.
Manifest_deref(self) == self

SeqsUpTo(S, n) == UNION {[1..k -> S] : k \in 0..n}
\* The path and the hash of a table entry are fixed in these inputs: the tables
\* vary in their structure.
FileInfos ==
    {FileInfo(CHOOSE p \in Paths : Len(p) = 1, s, CHOOSE h \in Hashes : h[1] = 1) :
        s \in 0..MaxFileSize}
ChunkInfos ==
    {ChunkInfo(f, s, o, CHOOSE h \in Hashes : h[1] = 65) :
        f \in 0..MaxFiles, s \in 1..MaxChunkSize, o \in 0..(MaxFileSize - 1)}
FileTables == SeqsUpTo(FileInfos, MaxFiles)
\* The entries of the tables that are encoded: each field at its least value and
\* at a large one, which takes a varint of several bytes.
EncodedFileInfos ==
    {FileInfo(p, s, h) : p \in Paths, s \in {0, DEFAULT_CHUNK_SIZE + 1},
                         h \in {CHOOSE h \in Hashes : h[1] = 1}}
EncodedChunkInfos ==
    {ChunkInfo(f, s, o, h) : f \in {0, MaxFiles}, s \in {1, DEFAULT_CHUNK_SIZE},
                             o \in {0, DEFAULT_CHUNK_SIZE},
                             h \in {CHOOSE h \in Hashes : h[1] = 65}}
ChunkTables == SeqsUpTo(ChunkInfos, MaxChunks)

(***************************************************************************)
(* The codec behind ProtoProxy: protobuf messages                          *)
(*   Manifest     { uint32 version = 1; repeated FileInfo file_table = 2;  *)
(*                  repeated ChunkInfo chunk_table = 3; }                  *)
(*   FileInfo     { string relative_path = 1; uint64 size_bytes = 2;       *)
(*                  bytes hash = 3; }                                      *)
(*   ChunkInfo    { uint32 file_index = 1; uint32 size_bytes = 2;          *)
(*                  uint64 offset = 3; bytes hash = 4; }                   *)
(*   MetaManifest { uint32 version = 1;                                    *)
(*                  repeated bytes sub_manifest_hashes = 2; }              *)
(* in the proto3 wire format: a field is a key (number * 8 + wire type)    *)
(* followed by a base-128 varint or by a length and that many bytes; a     *)
(* scalar field holding its default value is left out.                     *)
(***************************************************************************)
WIRE_VARINT == 0
WIRE_LEN == 2
\* The longest varint, that of a 64-bit value.
MAX_VARINT_BYTES == 10

RECURSIVE Varint(_)
Varint(n) == IF n < 128 THEN <<n>> ELSE <<128 + (n % 128)>> \o Varint(n \div 128)
Key(field, wire_type) == Varint(field * 8 + wire_type)
EncVarintField(field, n) == IF n = 0 THEN <<>> ELSE Key(field, WIRE_VARINT) \o Varint(n)
EncBytesField(field, b) ==
    IF b = <<>> THEN <<>> ELSE Key(field, WIRE_LEN) \o Varint(Len(b)) \o b
\* An element of a repeated field is written even when it is empty.
EncElement(field, b) == Key(field, WIRE_LEN) \o Varint(Len(b)) \o b
RECURSIVE Flatten(_)
Flatten(ss) == IF ss = <<>> THEN <<>> ELSE Head(ss) \o Flatten(Tail(ss))

pb_FileInfo(f) ==
    EncBytesField(1, f.relative_path) \o EncVarintField(2, f.size_bytes)
        \o EncBytesField(3, f.hash)
pb_ChunkInfo(c) ==
    EncVarintField(1, c.file_index) \o EncVarintField(2, c.size_bytes)
        \o EncVarintField(3, c.offset) \o EncBytesField(4, c.hash)
pb_Manifest_proxy_encode(m) ==
    Ok(EncVarintField(1, Discriminant(m.version))
        \o Flatten([i \in 1..Len(m.file_table) |->
                        EncElement(2, pb_FileInfo(m.file_table[i]))])
        \o Flatten([i \in 1..Len(m.chunk_table) |->
                        EncElement(3, pb_ChunkInfo(m.chunk_table[i]))]))
pb_MetaManifest_proxy_encode(mm) ==
    Ok(EncVarintField(1, Discriminant(mm.version))
        \o Flatten([i \in 1..Len(mm.sub_manifest_hashes) |->
                        EncElement(2, mm.sub_manifest_hashes[i])]))

\* The varint at b[pos..]: its value and the position after it.
RECURSIVE ReadVarint(_, _, _, _)
VarintMore(byte, scale, rest) ==
    IF rest.ok
    THEN Ok([val |-> (byte - 128) * scale + rest.val.val, next |-> rest.val.next])
    ELSE rest
ReadVarint(b, pos, count, scale) ==
    IF pos > Len(b) THEN Err("buffer underflow")
    ELSE IF count >= MAX_VARINT_BYTES THEN Err("invalid varint")
    ELSE IF b[pos] < 128 THEN Ok([val |-> b[pos] * scale, next |-> pos + 1])
    ELSE VarintMore(b[pos], scale, ReadVarint(b, pos + 1, count + 1, scale * 128))

Field(field, wire_type, val, next) ==
    [field |-> field, wire_type |-> wire_type, val |-> val, next |-> next]
\* A varint field, given the varint read after its key.
VarintField(field, v) ==
    IF v.ok THEN Ok(Field(field, WIRE_VARINT, v.val.val, v.val.next)) ELSE v
\* A length-delimited field, given the length read after its key.
LenField(b, field, n) ==
    IF ~n.ok THEN n
    ELSE IF n.val.next + n.val.val - 1 > Len(b) THEN Err("buffer underflow")
    ELSE Ok(Field(field, WIRE_LEN, SubSeq(b, n.val.next, n.val.next + n.val.val - 1),
                  n.val.next + n.val.val))
\* A fixed-width field of n bytes, which no message here declares.
FixedField(b, field, wire_type, at, n) ==
    IF at + n - 1 > Len(b) THEN Err("buffer underflow")
    ELSE Ok(Field(field, wire_type, 0, at + n))
FieldBody(b, field, wire_type, at) ==
    IF field = 0 THEN Err("invalid tag value: 0")
    ELSE IF wire_type = WIRE_VARINT THEN VarintField(field, ReadVarint(b, at, 0, 1))
    ELSE IF wire_type = WIRE_LEN THEN LenField(b, field, ReadVarint(b, at, 0, 1))
    ELSE IF wire_type = 1 THEN FixedField(b, field, wire_type, at, 8)
    ELSE IF wire_type = 5 THEN FixedField(b, field, wire_type, at, 4)
    ELSE Err("invalid wire type value")
FieldAfterKey(b, key) ==
    IF key.ok THEN FieldBody(b, key.val.val \div 8, key.val.val % 8, key.val.next)
    ELSE key
\* The field at b[pos..]: number, wire type, value (a number or the bytes) and
\* the position after it.
ReadField(b, pos) == FieldAfterKey(b, ReadVarint(b, pos, 0, 1))

\* All the fields of the message b, in order.
RECURSIVE ReadFields(_, _)
Prepend(x, rest) == IF rest.ok THEN Ok(<<x>> \o rest.val) ELSE rest
FieldsFrom(b, f) == IF f.ok THEN Prepend(f.val, ReadFields(b, f.val.next)) ELSE f
ReadFields(b, pos) ==
    IF pos > Len(b) THEN Ok(<<>>) ELSE FieldsFrom(b, ReadField(b, pos))

\* Merges the fields into the message msg: a known field takes the value (a
\* repeated one appends it), an unknown field is skipped, a known field with
\* another wire type is an error. types maps each known field to
\* <<name, wire type, repeated>>.
RECURSIVE Merge(_, _, _)
MergeField(msg, f, type) ==
    [msg EXCEPT ![type[1]] = IF type[3] THEN Append(msg[type[1]], f.val) ELSE f.val]
Merge(msg, fields, types) ==
    IF fields = <<>> THEN Ok(msg)
    ELSE IF Head(fields).field \notin DOMAIN types THEN Merge(msg, Tail(fields), types)
    ELSE IF Head(fields).wire_type # types[Head(fields).field][2]
        THEN Err("invalid wire type")
    ELSE Merge(MergeField(msg, Head(fields), types[Head(fields).field]),
               Tail(fields), types)

MergeAll(fields, default, types) ==
    IF fields.ok THEN Merge(default, fields.val, types) ELSE fields
DecodeMessage(b, default, types) == MergeAll(ReadFields(b, 1), default, types)

\* The results of xs in order, or the first error among them.
RECURSIVE Collect(_)
Collect(xs) ==
    IF xs = <<>> THEN Ok(<<>>)
    ELSE IF ~Head(xs).ok THEN Head(xs)
    ELSE Prepend(Head(xs).val, Collect(Tail(xs)))

HashLenOk(h) == Len(h) = HASH_LEN
CheckHash(h) == IF HashLenOk(h) THEN Ok(h) ELSE Err("InvalidDigestLength")
\* An unknown version number, or one above the maximum supported, is refused.
VersionSupported(v) ==
    IF v.ok /\ VersionLe(v.val, MAX_SUPPORTED_STATE_SYNC_VERSION) THEN v
    ELSE Err("UnknownStateSyncVersion")
CheckVersion(n) == VersionSupported(try_from(AsU32(n)))

FileInfoOf(p) ==
    IF ~p.ok THEN p
    ELSE IF ~HashLenOk(p.val.hash) THEN Err("InvalidDigestLength")
    ELSE Ok(FileInfo(p.val.relative_path, p.val.size_bytes, p.val.hash))
FileInfo_try_from(b) ==
    FileInfoOf(DecodeMessage(b,
        [relative_path |-> <<>>, size_bytes |-> 0, hash |-> <<>>],
        (1 :> <<"relative_path", WIRE_LEN, FALSE>>)
            @@ (2 :> <<"size_bytes", WIRE_VARINT, FALSE>>)
            @@ (3 :> <<"hash", WIRE_LEN, FALSE>>)))
ChunkInfoOf(p) ==
    IF ~p.ok THEN p
    ELSE IF ~HashLenOk(p.val.hash) THEN Err("InvalidDigestLength")
    ELSE Ok(ChunkInfo(p.val.file_index, p.val.size_bytes, p.val.offset, p.val.hash))
ChunkInfo_try_from(b) ==
    ChunkInfoOf(DecodeMessage(b,
        [file_index |-> 0, size_bytes |-> 0, offset |-> 0, hash |-> <<>>],
        (1 :> <<"file_index", WIRE_VARINT, FALSE>>)
            @@ (2 :> <<"size_bytes", WIRE_VARINT, FALSE>>)
            @@ (3 :> <<"offset", WIRE_VARINT, FALSE>>)
            @@ (4 :> <<"hash", WIRE_LEN, FALSE>>)))

\* The conversion of the parts into a Manifest: the version first, then the
\* tables; the first failure is the result.
ManifestOf(version, files, chunks) ==
    IF ~version.ok THEN version
    ELSE IF ~files.ok THEN files
    ELSE IF ~chunks.ok THEN chunks
    ELSE Ok(Manifest_new(version.val, files.val, chunks.val))
Manifest_try_from(p) ==
    IF ~p.ok THEN p
    ELSE ManifestOf(CheckVersion(p.val.version),
            Collect([i \in 1..Len(p.val.file_table) |->
                        FileInfo_try_from(p.val.file_table[i])]),
            Collect([i \in 1..Len(p.val.chunk_table) |->
                        ChunkInfo_try_from(p.val.chunk_table[i])]))
pb_Manifest_proxy_decode(b) ==
    Manifest_try_from(DecodeMessage(b,
        [version |-> 0, file_table |-> <<>>, chunk_table |-> <<>>],
        (1 :> <<"version", WIRE_VARINT, FALSE>>)
            @@ (2 :> <<"file_table", WIRE_LEN, TRUE>>)
            @@ (3 :> <<"chunk_table", WIRE_LEN, TRUE>>)))

MetaManifestOf(version, hashes) ==
    IF ~version.ok THEN version
    ELSE IF ~hashes.ok THEN hashes
    ELSE Ok(MetaManifest(version.val, hashes.val))
MetaManifest_try_from(p) ==
    IF ~p.ok THEN p
    ELSE MetaManifestOf(CheckVersion(p.val.version),
            Collect([i \in 1..Len(p.val.sub_manifest_hashes) |->
                        CheckHash(p.val.sub_manifest_hashes[i])]))
pb_MetaManifest_proxy_decode(b) ==
    MetaManifest_try_from(DecodeMessage(b,
        [version |-> 0, sub_manifest_hashes |-> <<>>],
        (1 :> <<"version", WIRE_VARINT, FALSE>>)
            @@ (2 :> <<"sub_manifest_hashes", WIRE_LEN, TRUE>>)))

(***************************************************************************)
(* encode_manifest, decode_manifest, encode_meta_manifest and              *)
(* decode_meta_manifest.                                                   *)
(***************************************************************************)
\* Result::expect: the value, or a panic with the message.
Expect(r, msg) == IF r.ok THEN r.val ELSE [panic |-> msg]
\* format!("<prefix>{}", err): the message, as the sequence of its parts.
MapErr(r, prefix) == IF r.ok THEN r ELSE Err(<<prefix, r.err>>)

encode_manifest(m) ==
    Expect(pb_Manifest_proxy_encode(m), "Failed to serialize manifest.")
\* Faulty variant: the bytes are decoded as the other message.
decode_manifest_WrongProto(b) ==
    MapErr(pb_MetaManifest_proxy_decode(b),
           "failed to convert Manifest proto into an object: ")
\* Faulty variant: a failure is replaced by the empty manifest.
OrDefault(r) == IF r.ok THEN r ELSE Ok(Manifest_new("V0", <<>>, <<>>))
decode_manifest_OrDefault(b) == OrDefault(pb_Manifest_proxy_decode(b))
decode_manifest(b) ==
    MapErr(pb_Manifest_proxy_decode(b),
           "failed to convert Manifest proto into an object: ")
encode_meta_manifest(mm) ==
    Expect(pb_MetaManifest_proxy_encode(mm), "Failed to serialize meta-manifest.")
decode_meta_manifest(b) ==
    MapErr(pb_MetaManifest_proxy_decode(b),
           "failed to convert MetaManifest proto into an object: ")

(***************************************************************************)
(* Note [Manifest Hash]: the inputs of the hashes. A digest is held as the *)
(* bytes it was computed over (and, for a hash over other digests, those   *)
(* digests in order): two digests are equal exactly when their inputs are. *)
(***************************************************************************)
Digest(bytes, digests) == [sha256_of |-> bytes, then |-> digests]
RECURSIVE BigEndian(_, _)
\* n in width bytes, most significant first.
BigEndian(n, width) ==
    IF width = 0 THEN <<>> ELSE BigEndian(n \div 256, width - 1) \o <<n % 256>>
BE32(n) == BigEndian(n, 4)
BE64(n) == BigEndian(n, 8)
\* dsep(seq) = byte(len(seq)) . seq
dsep(seq) == <<Len(seq)>> \o seq
IC_STATE_CHUNK == <<105, 99, 45, 115, 116, 97, 116, 101, 45, 99, 104, 117, 110, 107>>
IC_STATE_FILE == <<105, 99, 45, 115, 116, 97, 116, 101, 45, 102, 105, 108, 101>>
IC_STATE_MANIFEST == <<105, 99, 45, 115, 116, 97, 116, 101, 45, 109, 97, 110, 105, 102, 101, 115, 116>>
IC_STATE_META_MANIFEST == <<105, 99, 45, 115, 116, 97, 116, 101, 45, 109, 101, 116, 97, 45, 109, 97, 110, 105, 102, 101, 115, 116>>
IC_STATE_SUB_MANIFEST == <<105, 99, 45, 115, 116, 97, 116, 101, 45, 115, 117, 98, 45, 109, 97, 110, 105, 102, 101, 115, 116>>

\* chunk_entry := [file_index as u32 .] size_bytes as u32 . offset as u64 . chunk_hash
chunk_entry(c, with_file_index) ==
    (IF with_file_index THEN BE32(c.file_index) ELSE <<>>)
        \o BE32(c.size_bytes) \o BE64(c.offset) \o c.hash
\* Faulty variant: the path is hashed without its length.
file_entry_NoLength(f) == f.relative_path \o BE64(f.size_bytes) \o f.hash
\* file_entry := len(relative_path) as u32 . relative_path . size_bytes as u64 . file_hash
file_entry(f) ==
    BE32(Len(f.relative_path)) \o f.relative_path \o BE64(f.size_bytes) \o f.hash
\* file_entry* and chunk_entry*: the entries of a table, one after the other.
file_entries(table) == Flatten([i \in 1..Len(table) |-> file_entry(table[i])])
chunk_entries(table, with_file_index) ==
    Flatten([i \in 1..Len(table) |-> chunk_entry(table[i], with_file_index)])

\* Faulty variant: the file index is left out of the chunk entries from V2 on.
FileIndexHashed_FromV2(version) == Discriminant(version) < 2
\* "Before StateSyncVersion::V3 the file hash additionally includes the file
\* index within every chunk entry."
FileIndexHashed(version) == Discriminant(version) < 3
\* file_hash := hash(dsep("ic-state-file") . len(slice) as u32 . chunk_entry*)
file_hash(version, slice) ==
    Digest(dsep(IC_STATE_FILE) \o BE32(Len(slice))
               \o chunk_entries(slice, FileIndexHashed(version)), <<>>)

\* V0: the file table only, without a version number.
manifest_hash_v0(m) ==
    Digest(dsep(IC_STATE_MANIFEST) \o BE32(Len(m.file_table))
               \o file_entries(m.file_table), <<>>)
\* V1: the version, the file table and the chunk table.
manifest_hash_v1(m) ==
    Digest(dsep(IC_STATE_MANIFEST) \o BE32(Discriminant(m.version))
               \o BE32(Len(m.file_table)) \o file_entries(m.file_table)
               \o BE32(Len(m.chunk_table)) \o chunk_entries(m.chunk_table, TRUE), <<>>)

\* Faulty variant: a last piece shorter than size is left out.
Pieces_WholeOnly(len, size) ==
    [i \in 1..(len \div size) |-> [offset |-> (i - 1) * size, size_bytes |-> size]]
\* The consecutive pieces of len bytes, each of at most size bytes: the offset and
\* the length of each.
Pieces(len, size) ==
    [i \in 1..((len + size - 1) \div size) |->
        [offset |-> (i - 1) * size,
         size_bytes |-> IF i * size <= len THEN size ELSE len - (i - 1) * size]]
\* sub_manifest_hash := hash(dsep("ic-state-sub-manifest") . encoded_manifest[offset:offset + size_bytes])
sub_manifest_hash(encoded, piece) ==
    Digest(dsep(IC_STATE_SUB_MANIFEST)
               \o SubSeq(encoded, piece.offset + 1, piece.offset + piece.size_bytes), <<>>)
\* The hash of a sub-manifest of an encoded manifest of which only the length is
\* kept: the bytes of the piece are named by where they lie.
sub_manifest_hash_at(piece) ==
    Digest(dsep(IC_STATE_SUB_MANIFEST) \o BE64(piece.offset) \o BE64(piece.size_bytes), <<>>)
\* The meta-manifest of an encoded manifest of len bytes: split into sub-manifests
\* of DEFAULT_CHUNK_SIZE bytes, hash each.
meta_manifest_of_length(version, len) ==
    LET pieces == Pieces(len, DEFAULT_CHUNK_SIZE)
    IN  MetaManifest(version, [i \in 1..Len(pieces) |-> sub_manifest_hash_at(pieces[i])])
build_meta_manifest(m) ==
    LET encoded == encode_manifest(m)
        pieces == Pieces(Len(encoded), DEFAULT_CHUNK_SIZE)
    IN  MetaManifest(m.version,
                     [i \in 1..Len(pieces) |-> sub_manifest_hash(encoded, pieces[i])])
\* meta_manifest_hash := hash(dsep("ic-state-meta-manifest") . version as u32
\*                            . len(sub_manifest_hashes) as u32 . sub_manifest_hashes)
meta_manifest_hash(mm) ==
    Digest(dsep(IC_STATE_META_MANIFEST) \o BE32(Discriminant(mm.version))
               \o BE32(Len(mm.sub_manifest_hashes)), mm.sub_manifest_hashes)

\* Faulty variant: the meta-manifest hash is the manifest hash from V1 on.
manifest_hash_MetaFromV1(m) ==
    IF m.version = "V0" THEN manifest_hash_v0(m)
    ELSE meta_manifest_hash(build_meta_manifest(m))
\* The hash of a manifest that the subnet agrees on.
manifest_hash(m) ==
    CASE m.version = "V0" -> manifest_hash_v0(m)
      [] m.version = "V1" -> manifest_hash_v1(m)
      [] OTHER -> meta_manifest_hash(build_meta_manifest(m))

(***************************************************************************)
(* The computation of a manifest from the files of a checkpoint.           *)
(***************************************************************************)
\* A file of a checkpoint: its path, its length, and content, which names its
\* bytes (equal names, equal bytes).
File(relative_path, size_bytes, content) ==
    [relative_path |-> relative_path, size_bytes |-> size_bytes, content |-> content]
\* chunk_hash := hash(dsep("ic-state-chunk") . file[offset:offset + size_bytes])
\* as 32 bytes that name the slice hashed: distinct slices, distinct hashes.
chunk_hash(content, piece) ==
    BE32(content) \o BE64(piece.offset) \o BE32(piece.size_bytes)
        \o [i \in 1..(HASH_LEN - 16) |-> Len(IC_STATE_CHUNK)]
\* The chunk table entries of the file at file_index.
file_chunks(file_index, file, max_chunk_size) ==
    LET pieces == Pieces(file.size_bytes, max_chunk_size)
    IN  [i \in 1..Len(pieces) |->
            ChunkInfo(file_index, pieces[i].size_bytes, pieces[i].offset,
                      chunk_hash(file.content, pieces[i]))]
compute_manifest(version, files, max_chunk_size) ==
    LET slice(i) == file_chunks(i - 1, files[i], max_chunk_size)
    IN  Manifest_new(version,
                     [i \in 1..Len(files) |->
                         FileInfo(files[i].relative_path, files[i].size_bytes,
                                  file_hash(version, slice(i)))],
                     Flatten([i \in 1..Len(files) |-> slice(i)]))

(***************************************************************************)
(* Initial states.                                                         *)
(***************************************************************************)
NoCall == [op |-> "none"]
Readers == 1..NumReaders

InitObservations ==
    /\ chunk_id = None
    /\ table_index = None
    /\ chunk = None
    /\ group = None
    /\ version_arg = None
    /\ version_res = None
    /\ fgc_call = NoCall
    /\ fgc_ret = None
    /\ new_args = None
    /\ manifest = None
    /\ meta_manifest = None
    /\ wire = None
    /\ decoded = None
    /\ readers = [r \in Readers |-> [clone |-> None, seen |-> NoCall]]
    /\ root_hashes = None
    /\ checkpoint = None
    /\ receiver = None
    /\ fgc_built = None
    /\ range_call = None
    /\ fetch = None

\* No file groups: the Default value.
Init ==
    /\ InitObservations
    /\ file_group_chunks = FileGroupChunks_default

\* A checkpoint whose file group mapping was built by FileGroupChunks::new.
InitGroups ==
    /\ InitObservations
    /\ file_group_chunks \in {FileGroupChunks_new(m) : m \in BTreeMaps}

(***************************************************************************)
(* Chunk id classification.                                                *)
(***************************************************************************)
\* The transport resolves an arbitrary requested chunk id.
RequestChunk(id) ==
    /\ chunk_id' = Some(id)
    /\ table_index' = None
    /\ chunk' = Some(state_sync_chunk_type(id))
    /\ group' = None
    /\ UNCHANGED <<protocolVars, versionVars, file_group_chunks, groupVars, manifestVars, codecVars>>

\* The id of the file chunk at chunk_table index i is requested.
RequestFileChunk(i) ==
    /\ ~file_chunk_id(i).overflow
    /\ chunk_id' = Some(file_chunk_id(i).val)
    /\ table_index' = Some(i)
    /\ chunk' = Some(state_sync_chunk_type(file_chunk_id(i).val))
    /\ group' = None
    /\ UNCHANGED <<protocolVars, versionVars, file_group_chunks, groupVars, manifestVars, codecVars>>

\* A file group chunk is looked up under the id the classification returned.
GetGroup ==
    /\ chunk.some
    /\ chunk.val.kind = "FileGroupChunk"
    /\ group' = Some(FileGroupChunks_get(file_group_chunks, chunk.val.index))
    /\ UNCHANGED <<protocolVars, chunk_id, table_index, chunk, versionVars, file_group_chunks,
                   groupVars, manifestVars, codecVars>>

NextChunk ==
    \/ \E id \in SampleU32 : RequestChunk(id)
    \/ \E i \in SampleU32 : RequestFileChunk(i)
SpecChunk == Init /\ [][NextChunk]_vars

\* The ids requested while a file group mapping is in place: its keys and the
\* sampled ids at either end of the low limb.
LookupIds == GroupKeys \cup {id \in SampleU32 : id.lo \in {0, LIMB - 1}}
NextLookup ==
    \/ \E id \in LookupIds : RequestChunk(id)
    \/ GetGroup
SpecLookup == InitGroups /\ [][NextLookup]_vars

(***************************************************************************)
(* Version conversion.                                                     *)
(***************************************************************************)
TryFrom(n) ==
    /\ version_arg' = Some(n)
    /\ version_res' = Some(try_from(n))
    /\ UNCHANGED <<protocolVars, chunkVars, file_group_chunks, groupVars, manifestVars, codecVars>>

NextVersion == \E n \in SampleU32 : TryFrom(n)
SpecVersion == Init /\ [][NextVersion]_vars

(***************************************************************************)
(* FileGroupChunks readers.                                                *)
(***************************************************************************)
Called(op, ret) ==
    /\ fgc_call' = [op |-> op]
    /\ fgc_ret' = Some(ret)
    /\ UNCHANGED <<protocolVars, chunkVars, versionVars, file_group_chunks, manifestVars, codecVars>>

CallLen == Called("len", FileGroupChunks_len(file_group_chunks))
CallKeys == Called("keys", FileGroupChunks_keys(file_group_chunks))
CallIter == Called("iter", FileGroupChunks_iter(file_group_chunks))
CallLastChunkId == Called("last_chunk_id", FileGroupChunks_last_chunk_id(file_group_chunks))
CallIsEmpty == Called("is_empty", FileGroupChunks_is_empty(file_group_chunks))
CallGet(id) ==
    /\ fgc_call' = [op |-> "get", arg |-> id]
    /\ fgc_ret' = Some(FileGroupChunks_get(file_group_chunks, id))
    /\ UNCHANGED <<protocolVars, chunkVars, versionVars, file_group_chunks, manifestVars, codecVars>>

NextGroups ==
    \/ CallLen
    \/ CallKeys
    \/ CallIter
    \/ CallLastChunkId
    \/ CallIsEmpty
    \/ \E id \in GroupKeys \cup {U32(0, 0), MANIFEST_CHUNK_ID_OFFSET} : CallGet(id)
SpecGroups == InitGroups /\ [][NextGroups]_vars

(***************************************************************************)
(* Properties of the chunk id space.                                       *)
(***************************************************************************)
G_HI == 2^14    \* FILE_GROUP_CHUNK_ID_OFFSET = 2^30 = G_HI * 2^16
M_HI == 2^15    \* MANIFEST_CHUNK_ID_OFFSET = 2^31 = M_HI * 2^16
IsZero(id) == id.hi = 0 /\ id.lo = 0
InFileRange(id) == ~IsZero(id) /\ id.hi < G_HI
InGroupRange(id) == G_HI <= id.hi /\ id.hi < M_HI
InManifestRange(id) == M_HI <= id.hi
\* id - 1 for id > 0, limb by limb.
Pred(id) == IF id.lo = 0 THEN U32(id.hi - 1, LIMB - 1) ELSE U32(id.hi, id.lo - 1)
KindOf(id, kind) == chunk_id.val = id => chunk.val.kind = kind

\* C1: state_sync_chunk_type is total and its four kinds partition the u32 ids:
\* MetaManifestChunk iff id = 0, FileChunk iff 1 <= id <= G-1, FileGroupChunk iff
\* G <= id <= M-1, ManifestChunk iff id >= M, with G = 2^30 < M = 2^31; the ids
\* 0, 1, G-1, G, M-1, M and u32::MAX fall in the kinds stated.
C1_Partition ==
    chunk.some =>
        LET id == chunk_id.val
            kind == chunk.val.kind
        IN  /\ kind \in {"MetaManifestChunk", "FileChunk", "FileGroupChunk",
                         "ManifestChunk"}
            /\ (kind = "MetaManifestChunk") <=> IsZero(id)
            /\ (kind = "FileChunk") <=> InFileRange(id)
            /\ (kind = "FileGroupChunk") <=> InGroupRange(id)
            /\ (kind = "ManifestChunk") <=> InManifestRange(id)
            /\ FILE_GROUP_CHUNK_ID_OFFSET = U32(G_HI, 0)
            /\ MANIFEST_CHUNK_ID_OFFSET = U32(M_HI, 0)
            /\ OffsetsAssertion
            /\ KindOf(U32(0, 0), "MetaManifestChunk")
            /\ KindOf(U32(0, 1), "FileChunk")
            /\ KindOf(U32(G_HI - 1, LIMB - 1), "FileChunk")
            /\ KindOf(U32(G_HI, 0), "FileGroupChunk")
            /\ KindOf(U32(M_HI - 1, LIMB - 1), "FileGroupChunk")
            /\ KindOf(U32(M_HI, 0), "ManifestChunk")
            /\ KindOf(U32_MAX, "ManifestChunk")
\* The first id of the file group range has been classified.
C1_Witness ==
    /\ chunk.some
    /\ chunk_id.val = U32(G_HI, 0)
    /\ chunk.val.kind = "FileGroupChunk"

\* C2: the wire id of the file chunk at chunk_table index i is i + 1, and
\* state_sync_chunk_type inverts it: for 0 <= i <= G-2 the id made from i is
\* classified FileChunk(i), and every id in [1, G-1] yields the index id - 1.
C2_FileChunkInverse ==
    /\ (chunk.some /\ table_index.some
            /\ U32Le(table_index.val, U32(G_HI - 1, LIMB - 2)))
        => /\ chunk.val.kind = "FileChunk"
           /\ chunk.val.index = table_index.val
           /\ ~chunk.val.overflow
    /\ (chunk.some /\ InFileRange(chunk_id.val))
        => /\ chunk.val.kind = "FileChunk"
           /\ chunk.val.index = Pred(chunk_id.val)
           /\ file_chunk_id(chunk.val.index).val = chunk_id.val
\* The id made from the last admissible index, G-2, has been classified.
C2_Witness ==
    /\ chunk.some
    /\ table_index.some
    /\ table_index.val = U32(G_HI - 1, LIMB - 2)
    /\ chunk_id.val = U32(G_HI - 1, LIMB - 1)
    /\ chunk.val.kind = "FileChunk"

\* The value the mapping holds under key id, by search over its entries.
StoredUnder(id) ==
    IF \E i \in 1..Len(file_group_chunks) : file_group_chunks[i].key = id
    THEN Some((CHOOSE e \in {file_group_chunks[i] : i \in 1..Len(file_group_chunks)} :
                  e.key = id).val)
    ELSE None

\* C3: for every id in [G, M-1], state_sync_chunk_type returns FileGroupChunk(id)
\* with the id verbatim, which is the key FileGroupChunks::get looks the group up
\* under.
C3_FileGroupVerbatim ==
    /\ (chunk.some /\ InGroupRange(chunk_id.val))
        => chunk.val = [kind |-> "FileGroupChunk", index |-> chunk_id.val]
    /\ group.some => group.val = StoredUnder(chunk_id.val)
\* A group stored under an id above G has been found through the classification.
C3_Witness ==
    /\ group.some
    /\ group.val.some
    /\ chunk_id.val = U32(M_HI - 1, LIMB - 1)

\* C4: for every id in [M, 2^32 - 1], state_sync_chunk_type returns
\* ManifestChunk(id - M), computed without u32 underflow or overflow; M maps to
\* index 0, u32::MAX to u32::MAX - M, and every index lies in [0, 2^31 - 1].
C4_ManifestChunkIndex ==
    (chunk.some /\ InManifestRange(chunk_id.val)) =>
        LET id == chunk_id.val
        IN  /\ chunk.val.kind = "ManifestChunk"
            /\ ~chunk.val.overflow
            /\ chunk.val.index = U32(id.hi - M_HI, id.lo)
            /\ chunk.val.index.hi < M_HI
            /\ id = U32(M_HI, 0) => chunk.val.index = U32(0, 0)
            /\ id = U32_MAX => chunk.val.index = U32(M_HI - 1, LIMB - 1)
\* u32::MAX has been classified.
C4_Witness ==
    /\ chunk.some
    /\ chunk_id.val = U32_MAX
    /\ chunk.val.kind = "ManifestChunk"
    /\ chunk.val.index = U32(M_HI - 1, LIMB - 1)

(***************************************************************************)
(* Properties of the version conversion.                                   *)
(***************************************************************************)
\* C5: StateSyncVersion::try_from(n) is Ok(v) exactly when n is the discriminant
\* of a variant v (0 -> V0, 1 -> V1, 2 -> V2, 3 -> V3), so try_from(v as u32) =
\* Ok(v) for every v; for every other n it is Err(n) with the number unchanged.
C5_TryFromNeverDefaults ==
    version_res.some =>
        LET n == version_arg.val
            r == version_res.val
        IN  /\ r.ok <=> (n.hi = 0 /\ n.lo \in 0..3)
            /\ r.ok => r.val = <<"V0", "V1", "V2", "V3">>[n.lo + 1]
            /\ ~r.ok => r.err = n
            /\ \A v \in StateSyncVersions : n = VersionAsU32(v) => r = Ok(v)
\* A number whose low limb alone is the discriminant of V3 has been rejected.
C5_Witness ==
    /\ version_res.some
    /\ version_arg.val = U32(1, 3)
    /\ version_res.val = Err(U32(1, 3))

\* C6: every number try_from accepts is a known variant that does not exceed
\* MAX_SUPPORTED_STATE_SYNC_VERSION, every number above it is rejected, and
\* CURRENT_STATE_SYNC_VERSION <= MAX_SUPPORTED_STATE_SYNC_VERSION.
C6_MaxSupportedBounds ==
    /\ VersionLe(CURRENT_STATE_SYNC_VERSION, MAX_SUPPORTED_STATE_SYNC_VERSION)
    /\ version_res.some =>
        LET n == version_arg.val
            r == version_res.val
        IN  /\ r.ok => /\ r.val \in StateSyncVersions
                       /\ VersionLe(r.val, MAX_SUPPORTED_STATE_SYNC_VERSION)
            /\ U32Lt(VersionAsU32(MAX_SUPPORTED_STATE_SYNC_VERSION), n) => ~r.ok
\* The largest accepted number has been converted.
C6_Witness ==
    /\ version_res.some
    /\ version_arg.val = U32(0, 3)
    /\ version_res.val = Ok("V3")

(***************************************************************************)
(* Properties of FileGroupChunks.                                          *)
(***************************************************************************)
KeySet == {file_group_chunks[i].key : i \in 1..Len(file_group_chunks)}

\* C10: last_chunk_id returns the largest key of the mapping, and None if and
\* only if the mapping is empty (is_empty() is true and len() = 0).
C10_LastChunkId ==
    fgc_call.op = "last_chunk_id" =>
        LET r == fgc_ret.val
        IN  /\ r.some <=> KeySet # {}
            /\ r.some => /\ r.val \in KeySet
                         /\ \A k \in KeySet : U32Le(k, r.val)
            /\ ~r.some <=> FileGroupChunks_is_empty(file_group_chunks)
            /\ ~r.some <=> FileGroupChunks_len(file_group_chunks) = 0
\* The largest of several keys has been returned.
C10_Witness ==
    /\ fgc_call.op = "last_chunk_id"
    /\ Cardinality(KeySet) >= 2
    /\ fgc_ret.val = Some(FILE_GROUP_CHUNK_END_INCLUSIVE)

(***************************************************************************)
(* Manifest construction.                                                  *)
(***************************************************************************)
\* A manifest is built once per checkpoint and never changed afterwards.
ManifestNew(version, file_table, chunk_table) ==
    /\ ~manifest.some
    /\ new_args' = Some(ManifestData(version, file_table, chunk_table))
    /\ manifest' = Some(Manifest_new(version, file_table, chunk_table))
    /\ UNCHANGED <<protocolVars, chunkVars, versionVars, file_group_chunks, groupVars,
                   meta_manifest, codecVars>>

NextManifest ==
    /\ ~manifest.some
    /\ \E version \in StateSyncVersions, file_table \in FileTables,
          chunk_table \in ChunkTables :
           ManifestNew(version, file_table, chunk_table)
SpecManifest == Init /\ [][NextManifest]_vars

(***************************************************************************)
(* Properties of the manifest tables.                                      *)
(***************************************************************************)
RECURSIVE SumSizes(_, _)
SumSizes(chunk_table, I) ==
    IF I = {} THEN 0
    ELSE LET i == CHOOSE i \in I : TRUE
         IN  chunk_table[i].size_bytes + SumSizes(chunk_table, I \ {i})

\* The chunk entries of each file are contiguous in chunk_table, start at offset
\* 0, follow one another without gap or overlap and add up to the file's size;
\* every file_index is an index into file_table.
StructuralInvariant(m) ==
    LET ft == m.file_table
        ct == m.chunk_table
        Of(f) == {i \in 1..Len(ct) : ct[i].file_index = f}
    IN  /\ \A i \in 1..Len(ct) : ct[i].file_index < Len(ft)
        /\ \A f \in 0..(Len(ft) - 1) :
            /\ \A i, j \in Of(f) : \A k \in i..j : k \in Of(f)
            /\ \A i \in Of(f) :
                IF i - 1 \in Of(f)
                THEN /\ ct[i].offset = ct[i - 1].offset + ct[i - 1].size_bytes
                     /\ ct[i].offset > ct[i - 1].offset
                ELSE ct[i].offset = 0
            /\ SumSizes(ct, Of(f)) = ft[f + 1].size_bytes

\* C9 (as stated): every Manifest value satisfies the structural invariant of
\* its chunk table; a file/chunk table pair that violates it is rejected and
\* never becomes a Manifest.
C9_EveryManifestWellFormed ==
    manifest.some => StructuralInvariant(manifest.val)

\* C9 (amended): Manifest::new validates nothing. For every version, file_table
\* and chunk_table it returns a Manifest holding exactly these, so the Manifest
\* satisfies the structural invariant exactly when the tables it was given do.
C9_NewStoresTablesAsGiven ==
    new_args.some =>
        /\ manifest.some
        /\ manifest.val.version = new_args.val.version
        /\ manifest.val.file_table = new_args.val.file_table
        /\ manifest.val.chunk_table = new_args.val.chunk_table
        /\ StructuralInvariant(manifest.val) <=> StructuralInvariant(new_args.val)
\* A Manifest has been built from tables that hold an out-of-range file_index.
C9_Witness ==
    /\ new_args.some
    /\ manifest.some
    /\ \E i \in 1..Len(manifest.val.chunk_table) :
        manifest.val.chunk_table[i].file_index >= Len(manifest.val.file_table)
    /\ ~StructuralInvariant(manifest.val)

(***************************************************************************)
(* Encoding, transfer and decoding.                                        *)
(***************************************************************************)
Wire(kind, bytes, intact) == [kind |-> kind, bytes |-> bytes, intact |-> intact]

\* A MetaManifest value (a struct with public fields).
MetaManifestNew(version, sub_manifest_hashes) ==
    /\ ~meta_manifest.some
    /\ meta_manifest' = Some(MetaManifest(version, sub_manifest_hashes))
    /\ UNCHANGED <<protocolVars, chunkVars, versionVars, file_group_chunks, groupVars, new_args,
                   manifest, codecVars>>

EncodeManifest ==
    /\ manifest.some
    /\ ~wire.some
    /\ wire' = Some(Wire("Manifest", encode_manifest(manifest.val), TRUE))
    /\ UNCHANGED <<protocolVars, chunkVars, versionVars, file_group_chunks, groupVars,
                   manifestVars, decoded>>

EncodeMetaManifest ==
    /\ meta_manifest.some
    /\ ~wire.some
    /\ wire' = Some(Wire("MetaManifest", encode_meta_manifest(meta_manifest.val), TRUE))
    /\ UNCHANGED <<protocolVars, chunkVars, versionVars, file_group_chunks, groupVars,
                   manifestVars, decoded>>

\* The bytes arrive cut short.
Truncate(n) ==
    /\ wire.some
    /\ wire.val.intact
    /\ ~decoded.some
    /\ 0 <= n
    /\ n < Len(wire.val.bytes)
    /\ wire' = Some(Wire(wire.val.kind, SubSeq(wire.val.bytes, 1, n), FALSE))
    /\ UNCHANGED <<protocolVars, chunkVars, versionVars, file_group_chunks, groupVars,
                   manifestVars, decoded>>

\* The bytes arrive with one byte replaced.
Overwrite(pos, byte) ==
    /\ wire.some
    /\ wire.val.intact
    /\ ~decoded.some
    /\ pos \in 1..Len(wire.val.bytes)
    /\ wire.val.bytes[pos] # byte
    /\ wire' = Some(Wire(wire.val.kind, [wire.val.bytes EXCEPT ![pos] = byte], FALSE))
    /\ UNCHANGED <<protocolVars, chunkVars, versionVars, file_group_chunks, groupVars,
                   manifestVars, decoded>>

DecodeManifest ==
    /\ wire.some
    /\ wire.val.kind = "Manifest"
    /\ ~decoded.some
    /\ decoded' = Some(decode_manifest(wire.val.bytes))
    /\ UNCHANGED <<protocolVars, chunkVars, versionVars, file_group_chunks, groupVars,
                   manifestVars, wire>>

DecodeMetaManifest ==
    /\ wire.some
    /\ wire.val.kind = "MetaManifest"
    /\ ~decoded.some
    /\ decoded' = Some(decode_meta_manifest(wire.val.bytes))
    /\ UNCHANGED <<protocolVars, chunkVars, versionVars, file_group_chunks, groupVars,
                   manifestVars, wire>>

\* The places at which the bytes are cut or altered, and the bytes written.
CutLengths == IF wire.some THEN {0, 1, Len(wire.val.bytes) \div 2, Len(wire.val.bytes) - 1}
              ELSE {}
AlteredPositions == IF wire.some THEN {2, Len(wire.val.bytes)} ELSE {}
AlteredBytes == {4, 255}

\* One value, a Manifest or a MetaManifest, is built, encoded, transferred and
\* decoded.
NextCodec ==
    \/ /\ ~manifest.some
       /\ ~meta_manifest.some
       /\ \E version \in StateSyncVersions, files \in 0..MaxEncodedEntries :
            \E chunks \in 0..(MaxEncodedEntries - files) :
              \E file_table \in [1..files -> EncodedFileInfos],
                 chunk_table \in [1..chunks -> EncodedChunkInfos] :
                  ManifestNew(version, file_table, chunk_table)
    \/ /\ ~manifest.some
       /\ ~meta_manifest.some
       /\ \E version \in StateSyncVersions,
             hashes \in SeqsUpTo(Hashes, MaxEncodedEntries) :
              MetaManifestNew(version, hashes)
    \/ EncodeManifest
    \/ EncodeMetaManifest
    \/ \E n \in CutLengths : Truncate(n)
    \/ \E pos \in AlteredPositions, byte \in AlteredBytes : Overwrite(pos, byte)
    \/ DecodeManifest
    \/ DecodeMetaManifest
SpecCodec == Init /\ [][NextCodec]_vars

Underlying ==
    IF wire.val.kind = "Manifest" THEN pb_Manifest_proxy_decode(wire.val.bytes)
    ELSE pb_MetaManifest_proxy_decode(wire.val.bytes)

\* C8: whenever the underlying decode of the bytes fails, decode_manifest and
\* decode_meta_manifest return Err with a message that contains the underlying
\* cause, and never Ok.
C8_DecodeFailurePropagates ==
    (decoded.some /\ ~Underlying.ok) =>
        /\ ~decoded.val.ok
        /\ \E i \in 1..Len(decoded.val.err) : decoded.val.err[i] = Underlying.err
\* Bytes of a manifest that were cut short have been refused.
C8_Witness ==
    /\ decoded.some
    /\ wire.val.kind = "Manifest"
    /\ ~wire.val.intact
    /\ decoded.val = Err(<<"failed to convert Manifest proto into an object: ",
                           "buffer underflow">>)

(***************************************************************************)
(* Construction of the file group mapping of a checkpoint.                 *)
(***************************************************************************)
\* The chunk tables the groups refer to: n chunks of one file, n <= MaxChunks.
GroupedChunkTables ==
    {[i \in 1..n |-> ChunkInfo(0, 1, i - 1, CHOOSE h \in Hashes : h[1] = 65)] :
        n \in 0..MaxChunks}

NewFileGroupChunks(value) ==
    /\ fgc_call = NoCall
    /\ file_group_chunks' = FileGroupChunks_new(value)
    /\ fgc_call' = [op |-> "new", arg |-> value]
    /\ fgc_ret' = Some(FileGroupChunks_new(value))
    /\ UNCHANGED <<protocolVars, chunkVars, versionVars, manifestVars, codecVars>>

NextBuild ==
    \/ /\ ~manifest.some
       /\ \E version \in StateSyncVersions, chunk_table \in GroupedChunkTables :
            ManifestNew(version, <<>>, chunk_table)
    \/ /\ fgc_call = NoCall
       /\ \E value \in BTreeMaps : NewFileGroupChunks(value)
    \/ /\ fgc_call.op = "new"
       /\ \E i \in 1..Len(file_group_chunks) : RequestChunk(file_group_chunks[i].key)
SpecBuild == Init /\ [][NextBuild]_vars

\* Every index a group of fgc lists is an index of chunk_table, and no index is
\* listed twice, in one group or in two.
GroupsConsistent(fgc, chunk_table) ==
    /\ \A i \in 1..Len(fgc) : \A n \in 1..Len(fgc[i].val) :
            fgc[i].val[n] < Len(chunk_table)
    /\ \A i, j \in 1..Len(fgc) : \A n \in 1..Len(fgc[i].val), o \in 1..Len(fgc[j].val) :
            fgc[i].val[n] = fgc[j].val[o] => (i = j /\ n = o)
Built == fgc_call.op = "new" /\ manifest.some

\* C11 (as stated): in every FileGroupChunks value every referenced chunk_table
\* index is in range of the manifest's chunk_table and appears in at most one
\* group, whatever map was handed to FileGroupChunks::new.
C11_GroupsAlwaysConsistent ==
    Built => GroupsConsistent(file_group_chunks, manifest.val.chunk_table)

\* C11 (amended): FileGroupChunks::new checks nothing and holds the map it was
\* given, so the value is consistent with the chunk_table exactly when that map
\* is.
C11_NewStoresMapAsGiven ==
    Built =>
        /\ file_group_chunks = fgc_call.arg
        /\ fgc_ret.val = fgc_call.arg
        /\ GroupsConsistent(file_group_chunks, manifest.val.chunk_table)
            <=> GroupsConsistent(fgc_call.arg, manifest.val.chunk_table)
\* A mapping was built that lists one index in two groups and one out of range.
C11_Witness ==
    /\ Built
    /\ \E i, j \in 1..Len(file_group_chunks) :
        /\ i # j
        /\ file_group_chunks[i].val[1] = file_group_chunks[j].val[1]
        /\ file_group_chunks[i].val[1] >= Len(manifest.val.chunk_table)

\* C12 (as stated): every key of a FileGroupChunks mapping is at or above
\* FILE_GROUP_CHUNK_ID_OFFSET and below MANIFEST_CHUNK_ID_OFFSET, so that
\* state_sync_chunk_type of every stored key is FileGroupChunk(key).
C12_KeysAlwaysSynthetic ==
    /\ fgc_call.op = "new" => \A k \in KeySet : InGroupRange(k)
    /\ (fgc_call.op = "new" /\ chunk_id.some) => chunk.val = FileGroupChunk(chunk_id.val)

\* C12 (amended): FileGroupChunks::new takes any u32 as a key and keeps every
\* key it was given; state_sync_chunk_type of a stored key k is
\* FileGroupChunk(k) exactly when G <= k <= M-1, and a stored key outside that
\* range is the id of a chunk of another kind.
C12_StoredKeysClassify ==
    /\ fgc_call.op = "new" =>
            KeySet = {fgc_call.arg[i].key : i \in 1..Len(fgc_call.arg)}
    /\ (fgc_call.op = "new" /\ chunk_id.some) =>
        /\ chunk_id.val \in KeySet
        /\ chunk.val = FileGroupChunk(chunk_id.val) <=> InGroupRange(chunk_id.val)
        /\ ~InGroupRange(chunk_id.val) =>
                chunk.val.kind \in {"MetaManifestChunk", "FileChunk", "ManifestChunk"}
\* The key of a built mapping that lies in the file chunk range was classified.
C12_Witness ==
    /\ fgc_call.op = "new"
    /\ chunk_id.some
    /\ chunk_id.val \in KeySet
    /\ InFileRange(chunk_id.val)
    /\ chunk.val.kind = "FileChunk"

\* C13: keys() yields every synthetic id of the mapping exactly once, in strictly
\* ascending order; iter() yields the entries in that same key order, each key
\* with its own index list.
C13_KeysAndIterAscending ==
    /\ fgc_call.op = "keys" =>
        LET ks == fgc_ret.val
        IN  /\ \A i \in 1..(Len(ks) - 1) : U32Lt(ks[i], ks[i + 1])
            /\ {ks[i] : i \in 1..Len(ks)} = KeySet
            /\ Len(ks) = Cardinality(KeySet)
    /\ fgc_call.op = "iter" =>
        LET es == fgc_ret.val
        IN  /\ Len(es) = Cardinality(KeySet)
            /\ \A i \in 1..(Len(es) - 1) : U32Lt(es[i][1], es[i + 1][1])
            /\ {es[i][1] : i \in 1..Len(es)} = KeySet
            /\ \A i \in 1..Len(es) : StoredUnder(es[i][1]) = Some(es[i][2])
            /\ [i \in 1..Len(es) |-> es[i][1]] = FileGroupChunks_keys(file_group_chunks)
\* keys() was called on a mapping of several keys whose index lists differ.
C13_Witness ==
    /\ fgc_call.op = "keys"
    /\ Len(fgc_ret.val) >= 2
    /\ \E i, j \in 1..Len(file_group_chunks) :
            file_group_chunks[i].val # file_group_chunks[j].val

(***************************************************************************)
(* Concurrent readers of a checkpoint's Manifest, MetaManifest and         *)
(* FileGroupChunks. Each step is one call by one reader; the calls of      *)
(* different readers interleave freely.                                    *)
(***************************************************************************)
\* The mappings shared with the readers: empty, or one list under every key.
SharedMaps ==
    {<<>>} \cup {EntriesOf(GroupKeys, [k \in GroupKeys |-> v]) : v \in GroupValues}
SharedChunkTable == CHOOSE t \in GroupedChunkTables : Len(t) = MaxChunks
SharedHashes == <<CHOOSE h \in Hashes : h[1] = 1>>

Seen(r, op, ret) ==
    /\ readers' = [readers EXCEPT ![r].seen = [op |-> op, ret |-> ret]]
    /\ UNCHANGED <<chunkVars, versionVars, file_group_chunks, groupVars, manifestVars,
                   codecVars, hashVars, builderVars, receiverVars,
                   accessVars, fetchVars>>

\* Reader r takes a clone of the Manifest, from the original or from the clone
\* of reader from.
CloneManifest(r, from) ==
    /\ manifest.some
    /\ ~readers[r].clone.some
    /\ from # r
    /\ from \in Readers => readers[from].clone.some
    /\ LET source == IF from \in Readers THEN readers[from].clone.val ELSE manifest.val
       IN  readers' = [readers EXCEPT ![r].clone = Some(Manifest_clone(source))]
    /\ UNCHANGED <<chunkVars, versionVars, file_group_chunks, groupVars, manifestVars,
                   codecVars, hashVars, builderVars, receiverVars,
                   accessVars, fetchVars>>
\* Reader r drops its clone.
DropManifest(r) ==
    /\ readers[r].clone.some
    /\ readers' = [readers EXCEPT ![r].clone = None]
    /\ UNCHANGED <<chunkVars, versionVars, file_group_chunks, groupVars, manifestVars,
                   codecVars, hashVars, builderVars, receiverVars,
                   accessVars, fetchVars>>
DerefManifest(r) ==
    /\ readers[r].clone.some
    /\ Seen(r, "deref", Manifest_deref(readers[r].clone.val))
ReadMetaManifest(r) ==
    /\ meta_manifest.some
    /\ Seen(r, "meta_manifest", meta_manifest.val)
ReadLen(r) == Seen(r, "len", FileGroupChunks_len(file_group_chunks))
ReadKeys(r) == Seen(r, "keys", FileGroupChunks_keys(file_group_chunks))
ReadIter(r) == Seen(r, "iter", FileGroupChunks_iter(file_group_chunks))
ReadGet(r) ==
    Seen(r, "get", FileGroupChunks_get(file_group_chunks, FILE_GROUP_CHUNK_ID_OFFSET))
ReadLastChunkId(r) ==
    Seen(r, "last_chunk_id", FileGroupChunks_last_chunk_id(file_group_chunks))
ReadIsEmpty(r) == Seen(r, "is_empty", FileGroupChunks_is_empty(file_group_chunks))

NextShare ==
    \/ /\ ~manifest.some
       /\ \E version \in {"V0", CURRENT_STATE_SYNC_VERSION} :
            ManifestNew(version, <<>>, SharedChunkTable)
    \/ MetaManifestNew(CURRENT_STATE_SYNC_VERSION, SharedHashes)
    \/ /\ fgc_call = NoCall
       /\ \E value \in SharedMaps : NewFileGroupChunks(value)
    \/ \E r \in Readers, from \in {0} \cup Readers : CloneManifest(r, from)
    \/ \E r \in Readers : DropManifest(r)
    \/ \E r \in Readers : DerefManifest(r)
    \/ \E r \in Readers : ReadMetaManifest(r)
    \/ /\ fgc_call.op = "new"
       /\ \E r \in Readers :
            \/ ReadLen(r)
            \/ ReadKeys(r)
            \/ ReadIter(r)
            \/ ReadGet(r)
            \/ ReadLastChunkId(r)
            \/ ReadIsEmpty(r)
SpecShare == Init /\ [][NextShare]_vars

\* What a call observes of the values as they were constructed.
AsConstructed(seen) ==
    CASE seen.op = "deref" -> seen.ret = new_args.val
      [] seen.op = "meta_manifest" ->
            seen.ret = MetaManifest(CURRENT_STATE_SYNC_VERSION, SharedHashes)
      [] seen.op = "len" -> seen.ret = Len(fgc_call.arg)
      [] seen.op = "keys" -> seen.ret = [i \in 1..Len(fgc_call.arg) |-> fgc_call.arg[i].key]
      [] seen.op = "iter" ->
            seen.ret = [i \in 1..Len(fgc_call.arg) |->
                            <<fgc_call.arg[i].key, fgc_call.arg[i].val>>]
      [] seen.op = "get" ->
            \/ /\ ~seen.ret.some
               /\ \A i \in 1..Len(fgc_call.arg) :
                    fgc_call.arg[i].key # FILE_GROUP_CHUNK_ID_OFFSET
            \/ /\ seen.ret.some
               /\ \E i \in 1..Len(fgc_call.arg) :
                    fgc_call.arg[i] = Entry(FILE_GROUP_CHUNK_ID_OFFSET, seen.ret.val)
      [] seen.op = "last_chunk_id" ->
            IF Len(fgc_call.arg) = 0 THEN seen.ret = None
            ELSE seen.ret = Some(fgc_call.arg[Len(fgc_call.arg)].key)
      [] seen.op = "is_empty" -> seen.ret = (Len(fgc_call.arg) = 0)
      [] OTHER -> TRUE
\* No step changes a constructed value or a clone of it.
NothingWritten ==
    /\ manifest.some => manifest' = manifest
    /\ meta_manifest.some => meta_manifest' = meta_manifest
    /\ fgc_call.op = "new" => file_group_chunks' = file_group_chunks
    /\ \A r \in Readers :
        (readers[r].clone.some /\ readers'[r].clone.some) =>
            readers'[r].clone = readers[r].clone

ComputeHashes ==
    /\ manifest.some
    /\ ~root_hashes.some
    /\ root_hashes' = Some([v0 |-> manifest_hash_v0(manifest.val),
                       v1 |-> manifest_hash_v1(manifest.val),
                       meta |-> meta_manifest_hash(build_meta_manifest(manifest.val)),
                       trusted |-> manifest_hash(manifest.val)])
    /\ UNCHANGED <<chunkVars, versionVars, file_group_chunks, groupVars, manifestVars,
                   codecVars, sharingVars, builderVars, receiverVars,
                   accessVars, fetchVars>>

NextHash ==
    \/ /\ ~manifest.some
       /\ \E version \in StateSyncVersions, files \in 0..MaxEncodedEntries :
            \E chunks \in 0..(MaxEncodedEntries - files) :
              \E file_table \in [1..files -> EncodedFileInfos],
                 chunk_table \in [1..chunks -> EncodedChunkInfos] :
                  ManifestNew(version, file_table, chunk_table)
    \/ ComputeHashes
SpecHash == Init /\ [][NextHash]_vars

\* The length of the file entries of a file table, in bytes.
RECURSIVE FileEntriesLen(_)
FileEntriesLen(file_table) ==
    IF file_table = <<>> THEN 0
    ELSE 4 + Len(Head(file_table).relative_path) + 8 + HASH_LEN
            + FileEntriesLen(Tail(file_table))
\* The length of a chunk entry with its file index: u32, u32, u64, hash.
ChunkEntryLen == 4 + 4 + 8 + HASH_LEN
TagLen(tag) == 1 + Len(tag)
StartsWith(bytes, prefix) ==
    Len(bytes) >= Len(prefix) /\ SubSeq(bytes, 1, Len(prefix)) = prefix

FileSizes == {0, 1, DEFAULT_CHUNK_SIZE, 1500000}
\* The k-th file of a checkpoint has its own path and its own content.
Checkpoints ==
    UNION {{[k \in 1..n |-> File(<<96 + k>>, size[k], k)] : size \in [1..n -> FileSizes]} :
              n \in 0..MaxCheckpointFiles}
Orders(n) == {o \in [1..n -> 1..n] : \A i, j \in 1..n : o[i] = o[j] => i = j}

\* The manifest of a checkpoint is computed.
ComputeManifest(version, files) ==
    /\ ~checkpoint.some
    /\ ~manifest.some
    /\ checkpoint' = Some([files |-> files, moved |-> None])
    /\ new_args' = None
    /\ manifest' = Some(compute_manifest(version, files, DEFAULT_CHUNK_SIZE))
    /\ UNCHANGED <<chunkVars, versionVars, file_group_chunks, groupVars, meta_manifest,
                   codecVars, sharingVars, hashVars, receiverVars,
                   accessVars, fetchVars>>
\* The manifest of the same files in another order is computed: the file at
\* place order[j] of the checkpoint is at place j.
ComputeReordered(order) ==
    /\ checkpoint.some
    /\ ~checkpoint.val.moved.some
    /\ \E j \in 1..Len(order) : order[j] # j
    /\ LET files == [j \in 1..Len(order) |-> checkpoint.val.files[order[j]]]
       IN  checkpoint' =
             Some([checkpoint.val EXCEPT
                     !.moved = Some([order |-> order,
                                     manifest |-> compute_manifest(manifest.val.version, files,
                                                                   DEFAULT_CHUNK_SIZE)])])
    /\ UNCHANGED <<chunkVars, versionVars, file_group_chunks, groupVars, manifestVars,
                   codecVars, sharingVars, hashVars, receiverVars,
                   accessVars, fetchVars>>

NextCheckpoint ==
    \/ /\ ~checkpoint.some
       /\ \E version \in StateSyncVersions, files \in Checkpoints :
            ComputeManifest(version, files)
    \/ /\ checkpoint.some
       /\ \E order \in Orders(Len(checkpoint.val.files)) : ComputeReordered(order)
    \/ /\ checkpoint.some
       /\ \E i \in 0..(Len(manifest.val.chunk_table) - 1) : RequestFileChunk(AsU32(i))
    \/ /\ checkpoint.some
       /\ RequestChunk(U32(0, 0))
SpecCheckpoint == Init /\ [][NextCheckpoint]_vars

\* The file at place j of the reordered manifest, where it was, and whether it
\* has a chunk.
HashBefore(j) == manifest.val.file_table[checkpoint.val.moved.val.order[j]].hash
HashAfter(j) == checkpoint.val.moved.val.manifest.file_table[j].hash
Moved(j) == checkpoint.val.moved.val.order[j] # j
HasChunk(j) == checkpoint.val.moved.val.manifest.file_table[j].size_bytes > 0

\* C16 (as stated): when unrelated files are reordered, so that the file_index of
\* a file changes and its chunks do not, the file_hash of the file is unchanged
\* under V3 and different under V0, V1 and V2.
C16_FileHashMovesBeforeV3 ==
    (checkpoint.some /\ checkpoint.val.moved.some) =>
        \A j \in 1..Len(checkpoint.val.files) :
            Moved(j) =>
                IF manifest.val.version = "V3" THEN HashAfter(j) = HashBefore(j)
                ELSE HashAfter(j) # HashBefore(j)

\* C16 (amended): under V3 the file_hash of a moved file is unchanged; under V0,
\* V1 and V2 it is different if the file has at least one chunk, and unchanged
\* if the file is empty, for the hash of an empty file covers no chunk entry.
C16_FileHashMovesWithChunks ==
    (checkpoint.some /\ checkpoint.val.moved.some) =>
        \A j \in 1..Len(checkpoint.val.files) :
            Moved(j) =>
                IF manifest.val.version = "V3" \/ ~HasChunk(j)
                THEN HashAfter(j) = HashBefore(j)
                ELSE HashAfter(j) # HashBefore(j)
\* Two files of several chunks were swapped in a V2 manifest.
C16_Witness ==
    /\ checkpoint.some
    /\ checkpoint.val.moved.some
    /\ manifest.val.version = "V2"
    /\ \E j \in 1..Len(checkpoint.val.files) :
        /\ Moved(j)
        /\ checkpoint.val.files[j].size_bytes > DEFAULT_CHUNK_SIZE
        /\ HashAfter(j) # HashBefore(j)

(***************************************************************************)
(* The hash inputs of two file tables.                                     *)
(***************************************************************************)
ZeroHash == [i \in 1..HASH_LEN |-> 0]
\* The entries of Note [Manifest Hash]: [ "path1" size1 hash1 ], [ "path2" size2
\* hash2 ] and [ "path1 size1 hash1 path2" size2 hash2 ].
Entry1 == FileInfo(<<97>>, 1, CHOOSE h \in Hashes : h[1] = 1)
Entry2 == FileInfo(<<98, 47, 99>>, 2, CHOOSE h \in Hashes : h[1] = 65)
Entry12 ==
    FileInfo(Entry1.relative_path \o BE64(Entry1.size_bytes) \o Entry1.hash
                 \o Entry2.relative_path,
             Entry2.size_bytes, Entry2.hash)
\* These, and entries that are zero bytes throughout and differ in the length of
\* the path only.
ComparedFileInfos ==
    {Entry1, Entry2, Entry12, FileInfo(<<0>>, 0, ZeroHash), FileInfo(<<0, 0>>, 0, ZeroHash)}
ComparedFileTables == SeqsUpTo(ComparedFileInfos, MaxComparedFiles)

\* The hashes of the manifest and of one that differs in its file table.
CompareHashes(other) ==
    /\ manifest.some
    /\ ~root_hashes.some
    /\ LET o == Manifest_new(manifest.val.version, other, manifest.val.chunk_table)
       IN  root_hashes' = Some([v0 |-> manifest_hash_v0(manifest.val),
                                v1 |-> manifest_hash_v1(manifest.val),
                                other |-> [file_table |-> other,
                                           v0 |-> manifest_hash_v0(o),
                                           v1 |-> manifest_hash_v1(o)]])
    /\ UNCHANGED <<chunkVars, versionVars, file_group_chunks, groupVars, manifestVars,
                   codecVars, sharingVars, builderVars, receiverVars,
                   accessVars, fetchVars>>

NextCompare ==
    \/ /\ ~manifest.some
       /\ \E version \in {"V0", "V1"}, file_table \in ComparedFileTables :
            ManifestNew(version, file_table, <<>>)
    \/ /\ manifest.some
       /\ ~root_hashes.some
       /\ \E other \in ComparedFileTables : CompareHashes(other)
SpecCompare == Init /\ [][NextCompare]_vars

\* The entries one after the other with no length in front of anything.
Unprefixed(file_table) ==
    Flatten([i \in 1..Len(file_table) |-> file_entry_NoLength(file_table[i])])

\* C17: the bytes fed to the manifest hash are an injective encoding of the file
\* table: two distinct sequences of (path, size, hash) entries never give the
\* same hash input, also when their bytes without the length prefixes coincide.
C17_HashInputInjective ==
    root_hashes.some =>
        LET h == root_hashes.val
        IN  h.other.file_table # manifest.val.file_table =>
                /\ h.other.v0.sha256_of # h.v0.sha256_of
                /\ h.other.v1.sha256_of # h.v1.sha256_of
                /\ h.other.v0 # h.v0
                /\ h.other.v1 # h.v1
\* The two tables of the Note, whose bytes without length prefixes coincide, were
\* hashed.
C17_Witness ==
    /\ root_hashes.some
    /\ manifest.val.file_table = <<Entry1, Entry2>>
    /\ root_hashes.val.other.file_table = <<Entry12>>
    /\ Unprefixed(manifest.val.file_table) = Unprefixed(root_hashes.val.other.file_table)

\* C18: the manifest of a checkpoint splits each file into pieces of at most
\* DEFAULT_CHUNK_SIZE = 2^20 bytes, each but the last of a file of exactly that
\* size, in file order and then offset order. Files of 1 and 1,500,000 bytes
\* give a file table of 2 entries and a chunk table of 3: (file 0, 1 byte,
\* offset 0), (file 1, 1,048,576 bytes, offset 0), (file 1, 451,424 bytes,
\* offset 1,048,576), with chunk ids 1, 2, 3; chunk id 0 is the meta-manifest.
C18_ChunkSplitting ==
    checkpoint.some =>
        LET files == checkpoint.val.files
            ft == manifest.val.file_table
            ct == manifest.val.chunk_table
            Shape(c) == <<c.file_index, c.size_bytes, c.offset>>
        IN  /\ Len(ft) = Len(files)
            /\ \A i \in 1..Len(ft) :
                /\ ft[i].relative_path = files[i].relative_path
                /\ ft[i].size_bytes = files[i].size_bytes
            /\ \A i \in 1..Len(ct) :
                /\ 1 <= ct[i].size_bytes
                /\ ct[i].size_bytes <= 2^20
                /\ (i < Len(ct) /\ ct[i + 1].file_index = ct[i].file_index) =>
                        ct[i].size_bytes = 2^20
            /\ \A i, j \in 1..Len(ct) :
                i < j => \/ ct[i].file_index < ct[j].file_index
                         \/ /\ ct[i].file_index = ct[j].file_index
                            /\ ct[i].offset < ct[j].offset
            /\ StructuralInvariant(manifest.val)
            /\ [i \in 1..Len(files) |-> files[i].size_bytes] = <<1, 1500000>> =>
                    [i \in 1..Len(ct) |-> Shape(ct[i])]
                        = <<(<<0, 1, 0>>), (<<1, 1048576, 0>>), (<<1, 451424, 1048576>>)>>
            /\ table_index.some =>
                /\ chunk_id.val = U32(0, table_index.val.lo + 1)
                /\ chunk.val.kind = "FileChunk"
                /\ chunk.val.index = table_index.val
                /\ table_index.val.lo < Len(ct)
            /\ (chunk_id.some /\ chunk_id.val = U32(0, 0)) => chunk.val = MetaManifestChunk
\* The manifest of files of 1 and 1,500,000 bytes was computed and chunk id 3,
\* its last chunk, was requested.
C18_Witness ==
    /\ checkpoint.some
    /\ [i \in 1..Len(checkpoint.val.files) |-> checkpoint.val.files[i].size_bytes]
            = <<1, 1500000>>
    /\ Len(manifest.val.chunk_table) = 3
    /\ chunk_id = Some(U32(0, 3))
    /\ chunk.val.kind = "FileChunk"

(***************************************************************************)
(* The meta-manifest of an encoded manifest.                               *)
(***************************************************************************)
\* The lengths of the large encoded manifests, of which only the length is kept.
EncodedLengths ==
    {DEFAULT_CHUNK_SIZE - 1, DEFAULT_CHUNK_SIZE, DEFAULT_CHUNK_SIZE + 1,
     2 * DEFAULT_CHUNK_SIZE + DEFAULT_CHUNK_SIZE \div 2, 3 * DEFAULT_CHUNK_SIZE}

\* The meta-manifest of the manifest is built from its encoding.
BuildMetaManifest ==
    /\ manifest.some
    /\ ~meta_manifest.some
    /\ wire' = Some(Wire("Manifest", encode_manifest(manifest.val), TRUE))
    /\ meta_manifest' = Some(build_meta_manifest(manifest.val))
    /\ UNCHANGED <<protocolVars, chunkVars, versionVars, file_group_chunks, groupVars,
                   new_args, manifest, decoded>>
\* The meta-manifest of a manifest of the given version whose encoding has len
\* bytes.
BuildMetaManifestOfLength(version, len) ==
    /\ ~manifest.some
    /\ ~meta_manifest.some
    /\ wire' = Some([kind |-> "Manifest", version |-> version, len |-> len])
    /\ meta_manifest' = Some(meta_manifest_of_length(version, len))
    /\ UNCHANGED <<protocolVars, chunkVars, versionVars, file_group_chunks, groupVars,
                   new_args, manifest, decoded>>

NextMeta ==
    \/ /\ ~manifest.some
       /\ ~meta_manifest.some
       /\ \E version \in StateSyncVersions, files \in 0..MaxEncodedEntries :
            \E chunks \in 0..(MaxEncodedEntries - files) :
              \E file_table \in [1..files -> EncodedFileInfos],
                 chunk_table \in [1..chunks -> EncodedChunkInfos] :
                  ManifestNew(version, file_table, chunk_table)
    \/ BuildMetaManifest
    \/ /\ ~manifest.some
       /\ ~meta_manifest.some
       /\ \E version \in StateSyncVersions, len \in EncodedLengths :
            BuildMetaManifestOfLength(version, len)
SpecMeta == Init /\ [][NextMeta]_vars

MetaBuilt == meta_manifest.some /\ wire.some
EncodedLen == IF manifest.some THEN Len(wire.val.bytes) ELSE wire.val.len
EncodedVersion == IF manifest.some THEN manifest.val.version ELSE wire.val.version
\* The hash of the bytes from offset on, size_bytes of them.
SubManifestHash(offset, size_bytes) ==
    IF manifest.some
    THEN Digest(dsep(IC_STATE_SUB_MANIFEST)
                    \o SubSeq(wire.val.bytes, offset + 1, offset + size_bytes), <<>>)
    ELSE Digest(dsep(IC_STATE_SUB_MANIFEST) \o BE64(offset) \o BE64(size_bytes), <<>>)

\* C19: the MetaManifest of an encoded Manifest of L bytes has exactly
\* ceil(L / DEFAULT_CHUNK_SIZE) sub_manifest_hashes, one per consecutive piece of
\* at most DEFAULT_CHUNK_SIZE bytes, in order, only the last piece being shorter,
\* and carries the Manifest's version; 2.5 x DEFAULT_CHUNK_SIZE bytes give 3.
C19_SubManifestHashes ==
    MetaBuilt =>
        LET L == EncodedLen
            hs == meta_manifest.val.sub_manifest_hashes
            n == Len(hs)
        IN  /\ meta_manifest.val.version = EncodedVersion
            /\ (n - 1) * 2^20 < L
            /\ L <= n * 2^20
            /\ L = 0 <=> n = 0
            /\ \A i \in 1..n :
                hs[i] = SubManifestHash((i - 1) * 2^20,
                                        IF i < n THEN 2^20 ELSE L - (n - 1) * 2^20)
            /\ L = 2621440 => n = 3
\* The meta-manifest of an encoding of 2.5 x DEFAULT_CHUNK_SIZE bytes was built.
C19_Witness ==
    /\ MetaBuilt
    /\ ~manifest.some
    /\ wire.val.len = 2621440
    /\ Len(meta_manifest.val.sub_manifest_hashes) = 3

(***************************************************************************)
(* A node that fetches the manifest by state sync: the meta-manifest       *)
(* (chunk id 0), then the sub-manifests (chunk ids from                    *)
(* MANIFEST_CHUNK_ID_OFFSET). What arrives may have been altered.          *)
(***************************************************************************)
\* A sub-manifest as it arrives: the bytes of a piece, genuine or altered.
Delivered(piece, altered) ==
    [offset |-> piece.offset, size_bytes |-> piece.size_bytes, altered |-> altered]
DeliveredHash(d) ==
    IF d.altered
    THEN Digest(dsep(IC_STATE_SUB_MANIFEST) \o BE64(d.offset) \o BE64(d.size_bytes) \o <<1>>,
                <<>>)
    ELSE sub_manifest_hash_at(d)
\* The meta-manifests that may arrive for mm: mm itself, mm with another
\* version, mm with the hash of an altered first piece, mm cut by its last hash.
ArrivingMetaManifests(mm) ==
    LET hs == mm.sub_manifest_hashes
        first == Delivered(Pieces(wire.val.len, DEFAULT_CHUNK_SIZE)[1], TRUE)
    IN  {mm,
         MetaManifest(IF mm.version = "V0" THEN "V1" ELSE "V0", hs),
         MetaManifest(mm.version, [hs EXCEPT ![1] = DeliveredHash(first)]),
         MetaManifest(mm.version, SubSeq(hs, 1, Len(hs) - 1))}

\* Faulty variant: every sub-manifest is there, the meta-manifest unverified.
MayTrust_PiecesOnly(rx) ==
    /\ rx.meta.some
    /\ \A i \in 1..Len(rx.pieces) : rx.pieces[i].some
\* The reconstructed manifest may be treated as valid.
MayTrust(rx) ==
    /\ rx.meta.some
    /\ rx.meta_verified
    /\ \A i \in 1..Len(rx.pieces) : rx.pieces[i].some

Receive(rx) ==
    /\ receiver' = Some(rx)
    /\ UNCHANGED <<chunkVars, versionVars, file_group_chunks, groupVars, manifestVars,
                   codecVars, sharingVars, hashVars, builderVars,
                   accessVars, fetchVars>>
\* The node learns the agreed hash of the state to fetch.
StartStateSync ==
    /\ meta_manifest.some
    /\ ~receiver.some
    /\ Receive([meta_hash |-> meta_manifest_hash(meta_manifest.val), meta |-> None,
                meta_verified |-> FALSE, pieces |-> <<>>, discarded |-> 0,
                trusted |-> FALSE])
ReceiveMetaManifest(mm) ==
    /\ receiver.some
    /\ ~receiver.val.meta.some
    /\ Receive([receiver.val EXCEPT !.meta = Some(mm),
                                    !.pieces = [i \in 1..Len(mm.sub_manifest_hashes) |-> None]])
\* The recorded sub-hash sequence is checked against the agreed hash; a
\* meta-manifest that fails is discarded with all that was fetched under it.
VerifyMetaManifest ==
    /\ receiver.some
    /\ receiver.val.meta.some
    /\ ~receiver.val.meta_verified
    /\ IF meta_manifest_hash(receiver.val.meta.val) = receiver.val.meta_hash
       THEN Receive([receiver.val EXCEPT !.meta_verified = TRUE])
       ELSE Receive([receiver.val EXCEPT !.meta = None, !.pieces = <<>>, !.discarded = 1])
\* Sub-manifest i arrives and is checked against its recorded sub-hash; one that
\* fails is discarded.
ReceiveSubManifest(i, d) ==
    /\ receiver.some
    /\ receiver.val.meta.some
    /\ ~receiver.val.trusted
    /\ i \in 1..Len(receiver.val.pieces)
    /\ ~receiver.val.pieces[i].some
    /\ IF DeliveredHash(d) = receiver.val.meta.val.sub_manifest_hashes[i]
       THEN Receive([receiver.val EXCEPT !.pieces[i] = Some(d)])
       ELSE Receive([receiver.val EXCEPT !.discarded = 1])
TrustManifest ==
    /\ receiver.some
    /\ ~receiver.val.trusted
    /\ MayTrust(receiver.val)
    /\ Receive([receiver.val EXCEPT !.trusted = TRUE])

NextReceive ==
    \/ /\ ~meta_manifest.some
       /\ \E version \in StateSyncVersions,
             len \in {1, 2 * DEFAULT_CHUNK_SIZE + DEFAULT_CHUNK_SIZE \div 2} :
            BuildMetaManifestOfLength(version, len)
    \/ StartStateSync
    \/ /\ receiver.some
       /\ \E mm \in ArrivingMetaManifests(meta_manifest.val) : ReceiveMetaManifest(mm)
    \/ VerifyMetaManifest
    \/ /\ receiver.some
       /\ LET pieces == Pieces(wire.val.len, DEFAULT_CHUNK_SIZE)
          IN  \E i, j \in 1..Len(pieces), altered \in BOOLEAN :
                ReceiveSubManifest(i, Delivered(pieces[j], altered))
    \/ TrustManifest
SpecReceive == Init /\ [][NextReceive]_vars

\* What is kept has passed its check; what is trusted is what was sent.
VerifiedBeforeTrusted ==
    receiver.some =>
        LET rx == receiver.val
            sent == Pieces(wire.val.len, DEFAULT_CHUNK_SIZE)
        IN  /\ \A i \in 1..Len(rx.pieces) :
                rx.pieces[i].some =>
                    DeliveredHash(rx.pieces[i].val) = rx.meta.val.sub_manifest_hashes[i]
            /\ rx.meta_verified =>
                /\ rx.meta.some
                /\ meta_manifest_hash(rx.meta.val) = rx.meta_hash
            /\ rx.trusted =>
                /\ rx.meta_verified
                /\ rx.meta.val = meta_manifest.val
                /\ Len(rx.pieces) = Len(sent)
                /\ \A i \in 1..Len(sent) : rx.pieces[i] = Some(Delivered(sent[i], FALSE))
\* The step that starts to trust follows the checks.
TrustsOnlyVerified ==
    (receiver.some /\ receiver'.some /\ receiver'.val.trusted /\ ~receiver.val.trusted) =>
        /\ receiver.val.meta_verified
        /\ \A i \in 1..Len(receiver.val.pieces) : receiver.val.pieces[i].some

\* C20: a reconstructed Manifest is treated as valid only after every received
\* sub-manifest chunk was verified against its recorded sub_hash and the
\* sub_hash sequence against the agreed meta_hash; no reachable state keeps or
\* trusts a manifest or chunk that has not passed its verification.
C20_TrustAfterVerification ==
    []VerifiedBeforeTrusted /\ [][TrustsOnlyVerified]_vars
\* A manifest of three sub-manifests is trusted after an altered meta-manifest or
\* sub-manifest had been discarded.
C20_Witness ==
    /\ receiver.some
    /\ receiver.val.trusted
    /\ receiver.val.discarded = 1
    /\ Len(receiver.val.pieces) = 3

(***************************************************************************)
(* The chunk id space as a multiplexer of the four kinds.                  *)
(***************************************************************************)
\* The id that a result stands for: 0, i + 1, k and i + M.
IdOfChunk(c) ==
    CASE c.kind = "MetaManifestChunk" -> Ok(U32(0, 0))
      [] c.kind = "FileChunk" ->
            LET id == U32Add(c.index, AsU32(FILE_CHUNK_ID_OFFSET))
            IN  IF id.overflow THEN Err("overflow") ELSE Ok(id.val)
      [] c.kind = "FileGroupChunk" -> Ok(c.index)
      [] c.kind = "ManifestChunk" ->
            LET id == U32Add(c.index, MANIFEST_CHUNK_ID_OFFSET)
            IN  IF id.overflow THEN Err("overflow") ELSE Ok(id.val)
      [] OTHER -> Err("no kind")

\* C22: state_sync_chunk_type is injective on u32: no other id yields the result
\* of the requested id, and the result determines the id: 0 for
\* MetaManifestChunk, i + 1 for FileChunk(i), k for FileGroupChunk(k) and i + M
\* for ManifestChunk(i).
C22_ChunkTypeInjective ==
    chunk.some =>
        /\ \A other \in SampleU32 :
              state_sync_chunk_type(other) = chunk.val => other = chunk_id.val
        /\ IdOfChunk(chunk.val) = Ok(chunk_id.val)
\* The second id of the file group range was resolved, next to ids of every kind
\* among those compared with it.
C22_Witness ==
    /\ chunk.some
    /\ chunk_id.val = U32Add(FILE_GROUP_CHUNK_ID_OFFSET, U32(0, 1)).val
    /\ chunk.val = FileGroupChunk(chunk_id.val)
    /\ \A kind \in {"MetaManifestChunk", "FileChunk", "FileGroupChunk", "ManifestChunk"} :
          \E other \in SampleU32 \ {chunk_id.val} : state_sync_chunk_type(other).kind = kind

(***************************************************************************)
(* A FileGroupChunks value from its construction to its accessors.         *)
(***************************************************************************)
Constructed(by, self) ==
    /\ ~fgc_built.some
    /\ file_group_chunks' = self
    /\ fgc_built' = Some(by)
    /\ fgc_call' = [op |-> by.by]
    /\ fgc_ret' = Some(self)
    /\ UNCHANGED <<chunkVars, versionVars, manifestVars, codecVars, sharingVars, hashVars,
                   builderVars, receiverVars, range_call, fetchVars>>
\* #[derive(Default)]
DefaultFileGroupChunks == Constructed([by |-> "default"], FileGroupChunks_default)
ConstructFileGroupChunks(value) ==
    Constructed([by |-> "new", value |-> value], FileGroupChunks_new(value))

NextAccess ==
    \/ DefaultFileGroupChunks
    \/ /\ ~fgc_built.some
       /\ \E value \in BTreeMaps : ConstructFileGroupChunks(value)
    \/ /\ fgc_built.some
       /\ \/ CallLen
          \/ CallIsEmpty
          \/ \E id \in GroupKeys \cup {U32(0, 0), U32(0, 2), MANIFEST_CHUNK_ID_OFFSET} :
                CallGet(id)
SpecAccess == Init /\ [][NextAccess]_vars

\* The map a FileGroupChunks value was made of: the argument of new, and the
\* empty map for Default.
MapBuiltFrom == IF fgc_built.val.by = "new" THEN fgc_built.val.value ELSE <<>>
KeysBuiltFrom == {MapBuiltFrom[i].key : i \in 1..Len(MapBuiltFrom)}
\* The index lists the map holds under id: one if id is a key, none otherwise.
ListsBuiltFrom(id) ==
    {MapBuiltFrom[i].val : i \in {j \in 1..Len(MapBuiltFrom) : MapBuiltFrom[j].key = id}}

\* C23: for a FileGroupChunks built by new(m), len() is the number of keys of m,
\* is_empty() holds iff len() = 0, get(id) is the index list m maps id to, in its
\* original order, if id is a key of m and None for every other id, also one
\* below FILE_GROUP_CHUNK_ID_OFFSET; Default yields the empty mapping.
C23_AccessorsAgreeWithMap ==
    fgc_built.some =>
        /\ fgc_call.op = "default" => fgc_ret.val = <<>>
        /\ fgc_built.val.by = "default" => KeysBuiltFrom = {}
        /\ fgc_call.op = "len" => fgc_ret.val = Cardinality(KeysBuiltFrom)
        /\ fgc_call.op = "is_empty" =>
              /\ fgc_ret.val <=> FileGroupChunks_len(file_group_chunks) = 0
              /\ fgc_ret.val <=> KeysBuiltFrom = {}
        /\ fgc_call.op = "get" =>
              /\ fgc_call.arg \in KeysBuiltFrom =>
                    /\ fgc_ret.val.some
                    /\ ListsBuiltFrom(fgc_call.arg) = {fgc_ret.val.val}
              /\ fgc_call.arg \notin KeysBuiltFrom => fgc_ret.val = None
\* get returned a list of two indices that is not in ascending order, for a key
\* below FILE_GROUP_CHUNK_ID_OFFSET of a map of several keys.
C23_Witness ==
    /\ fgc_built.some
    /\ fgc_call.op = "get"
    /\ U32Lt(fgc_call.arg, FILE_GROUP_CHUNK_ID_OFFSET)
    /\ Cardinality(KeysBuiltFrom) >= 2
    /\ fgc_ret.val = Some(<<1, 0>>)

(***************************************************************************)
(* ChunkInfo::byte_range. offset is a u64 and size_bytes a u32; usize is   *)
(* the 64-bit word of the targets the replica is built for, held as two    *)
(* u32 halves.                                                             *)
(***************************************************************************)
U64(hi, lo) == [hi |-> hi, lo |-> lo]
USIZE_MAX == U64(U32_MAX, U32_MAX)
U64Lt(a, b) == U32Lt(a.hi, b.hi) \/ (a.hi = b.hi /\ U32Lt(a.lo, b.lo))
U64Le(a, b) == a = b \/ U64Lt(a, b)
\* a + b on usize: the wrapped sum, and whether the addition overflowed.
UsizeAdd(a, b) ==
    LET lo == U32Add(a.lo, b.lo)
        hi == U32Add(a.hi, b.hi)
        carried == U32Add(hi.val, IF lo.overflow THEN U32(0, 1) ELSE U32(0, 0))
    IN  [val |-> U64(carried.val, lo.val), overflow |-> hi.overflow \/ carried.overflow]
\* a - b on usize, with the same convention.
UsizeSub(a, b) ==
    LET lo == U32Sub(a.lo, b.lo)
        hi == U32Sub(a.hi, b.hi)
        borrowed == U32Sub(hi.val, IF lo.overflow THEN U32(0, 1) ELSE U32(0, 0))
    IN  [val |-> U64(borrowed.val, lo.val), overflow |-> hi.overflow \/ borrowed.overflow]
\* `as usize` of a u64 and of a u32.
U64AsUsize(n) == n
U32AsUsize(n) == U64(U32(0, 0), n)

\* Faulty variant: the range ends at size_bytes.
byte_range_EndIsSize(self) ==
    [start |-> U64AsUsize(self.offset), end |-> U32AsUsize(self.size_bytes),
     overflow |-> FALSE]
\* self.offset as usize..(self.offset as usize + self.size_bytes as usize)
byte_range(self) ==
    LET end == UsizeAdd(U64AsUsize(self.offset), U32AsUsize(self.size_bytes))
    IN  [start |-> U64AsUsize(self.offset), end |-> end.val, overflow |-> end.overflow]

\* The builds: with overflow checks an overflowing addition panics, without
\* them it wraps.
Builds == {"overflow-checks", "wrapping"}
ByteRangeIn(build, self) ==
    LET r == byte_range(self)
    IN  IF r.overflow /\ build = "overflow-checks"
        THEN [panicked |-> TRUE]
        ELSE [panicked |-> FALSE, start |-> r.start, end |-> r.end]

\* The sampled halves of an offset and the sampled sizes: the values next to 0
\* and to 2^32 - 1, the chunk size, and the rest of 1,500,000 bytes.
HalfSamples ==
    {U32(0, x) : x \in NearLimb(0)} \cup {U32(LIMB - 1, x) : x \in NearLimb(LIMB - 1)}
        \cup {AsU32(DEFAULT_CHUNK_SIZE)}
RangeOffsets == {U64(hi, lo) : hi \in {U32(0, 0), U32(0, 1), U32_MAX}, lo \in HalfSamples}
RangeSizes == HalfSamples \cup {AsU32(1500000 - DEFAULT_CHUNK_SIZE)}
RangedChunk(offset, size_bytes) ==
    ChunkInfo(0, size_bytes, offset, CHOOSE h \in Hashes : h[1] = 65)

CalledByteRange(build, self, prev) ==
    /\ range_call' = Some([build |-> build, arg |-> self, prev |-> prev,
                           ret |-> ByteRangeIn(build, self)])
    /\ UNCHANGED <<chunkVars, versionVars, file_group_chunks, groupVars, manifestVars,
                   codecVars, sharingVars, hashVars, builderVars, receiverVars, fgc_built,
                   fetchVars>>
\* byte_range of a chunk table entry.
CallByteRange(build, self) ==
    /\ ~range_call.some
    /\ CalledByteRange(build, self, None)
\* byte_range of the entry that follows in the chunk table: the next chunk of
\* the same file, which starts where the last one ends.
CallByteRangeOfNext(size_bytes) ==
    /\ range_call.some
    /\ ~range_call.val.prev.some
    /\ ~byte_range(range_call.val.arg).overflow
    /\ CalledByteRange(range_call.val.build,
                       RangedChunk(UsizeAdd(range_call.val.arg.offset,
                                            U32AsUsize(range_call.val.arg.size_bytes)).val,
                                   size_bytes),
                       Some(range_call.val))

NextRange ==
    \/ /\ ~range_call.some
       /\ \E build \in Builds, offset \in RangeOffsets, size_bytes \in RangeSizes :
            CallByteRange(build, RangedChunk(offset, size_bytes))
    \/ /\ range_call.some
       /\ \E size_bytes \in RangeSizes : CallByteRangeOfNext(size_bytes)
SpecRange == Init /\ [][NextRange]_vars

\* offset + size_bytes <= usize::MAX
FitsUsize(self) ==
    U64Le(U32AsUsize(self.size_bytes), UsizeSub(USIZE_MAX, U64AsUsize(self.offset)).val)
\* The call returned the half-open range from offset of length size_bytes.
RangeOfChunk(call) ==
    /\ ~call.ret.panicked
    /\ call.ret.start = U64AsUsize(call.arg.offset)
    /\ U64Le(call.ret.start, call.ret.end)
    /\ UsizeSub(call.ret.end, call.ret.start).val = U32AsUsize(call.arg.size_bytes)
\* The range of the entry before ends where this range starts.
RangesAdjoin(call) ==
    call.prev.some =>
        /\ ~call.prev.val.ret.panicked
        /\ call.prev.val.ret.end = call.ret.start

\* C24 (as stated): for every ChunkInfo with a u64 offset and a u32 size_bytes,
\* byte_range returns the half-open range from offset to offset + size_bytes, of
\* length size_bytes, without the sum overflowing the machine word, and the
\* ranges of two consecutive entries of a file adjoin.
C24_ByteRangeNeverOverflows ==
    range_call.some => (RangeOfChunk(range_call.val) /\ RangesAdjoin(range_call.val))
\* C24 (amended): for every ChunkInfo with offset + size_bytes <= usize::MAX,
\* byte_range returns the half-open range from offset of length size_bytes, and
\* the ranges of two consecutive entries of a file adjoin. For any other
\* ChunkInfo the sum overflows: the call panics in a build with overflow checks,
\* and without them it returns a range whose end lies below its start.
C24_ByteRangeWithinUsize ==
    range_call.some =>
        LET call == range_call.val
        IN  /\ FitsUsize(call.arg) => (RangeOfChunk(call) /\ RangesAdjoin(call))
            /\ ~FitsUsize(call.arg) =>
                  IF call.build = "overflow-checks" THEN call.ret.panicked
                  ELSE /\ ~call.ret.panicked
                       /\ U64Lt(call.ret.end, call.ret.start)
\* The second chunk of a file of 1,500,000 bytes, whose range starts at 2^20
\* where that of the first ends, and ends at 1,500,000.
C24_Witness ==
    /\ range_call.some
    /\ range_call.val.prev.some
    /\ range_call.val.prev.val.arg.offset = U64(U32(0, 0), U32(0, 0))
    /\ range_call.val.arg.offset = U32AsUsize(AsU32(DEFAULT_CHUNK_SIZE))
    /\ range_call.val.arg.size_bytes = AsU32(1500000 - DEFAULT_CHUNK_SIZE)
    /\ range_call.val.ret = [panicked |-> FALSE, start |-> range_call.val.arg.offset,
                             end |-> U32AsUsize(AsU32(1500000))]

(***************************************************************************)
(* A node that fetches the chunks of a state: the sub-manifests, the file  *)
(* chunks and the file group chunks arrive in any order, genuine, altered  *)
(* or in place of one another, and each is checked on arrival.             *)
(***************************************************************************)
\* The state fetched: two files of one byte, bundled into one file group chunk,
\* and a file of 1,500,000 bytes in two chunks; an encoded manifest of 2.5 times
\* DEFAULT_CHUNK_SIZE bytes.
FetchedFiles == <<File(<<97>>, 1, 1), File(<<98>>, 1, 2), File(<<99>>, 1500000, 3)>>
FetchedGroups == FileGroupChunks_new(<<Entry(FILE_GROUP_CHUNK_ID_OFFSET, <<0, 1>>)>>)
FetchedEncodedLen == 2 * DEFAULT_CHUNK_SIZE + DEFAULT_CHUNK_SIZE \div 2
\* The chunk ids to fetch: the file chunks outside the groups, the groups, and
\* the sub-manifests.
FetchedIds(f) ==
    {file_chunk_id(AsU32(i - 1)).val :
        i \in {j \in 1..Len(f.manifest.chunk_table) :
                 \A g \in 1..Len(f.groups) : \A n \in 1..Len(f.groups[g].val) :
                     f.groups[g].val[n] # j - 1}}
      \cup {f.groups[g].key : g \in 1..Len(f.groups)}
      \cup {U32Add(MANIFEST_CHUNK_ID_OFFSET, AsU32(i - 1)).val :
               i \in 1..Len(f.meta_manifest.sub_manifest_hashes)}
\* The hashes a chunk is checked against: that of its sub-manifest, that of its
\* chunk table entry, or those of the entries of its group.
ExpectedHashes(f, id) ==
    LET c == state_sync_chunk_type(id)
    IN  CASE c.kind = "ManifestChunk" -> <<f.meta_manifest.sub_manifest_hashes[c.index.lo + 1]>>
          [] c.kind = "FileChunk" -> <<f.manifest.chunk_table[c.index.lo + 1].hash>>
          [] c.kind = "FileGroupChunk" ->
                LET indices == FileGroupChunks_get(f.groups, c.index).val
                IN  [n \in 1..Len(indices) |-> f.manifest.chunk_table[indices[n] + 1].hash]
          [] OTHER -> <<>>
\* The hash of bytes that are not those hashed into h.
HashOfAltered(h) == [h EXCEPT ![1] = (h[1] + 1) % 256]
HashOfAlteredDigest(h) == Digest(h.sha256_of \o <<1>>, h.then)
\* The hashes recomputed of what arrived: the bytes of chunk src, with those of
\* its part p altered if p > 0.
RecomputedHashes(f, src, p) ==
    LET hs == ExpectedHashes(f, src)
    IN  IF p = 0 THEN hs
        ELSE [hs EXCEPT ![p] = IF state_sync_chunk_type(src).kind = "ManifestChunk"
                                THEN HashOfAlteredDigest(hs[p])
                                ELSE HashOfAltered(hs[p])]
\* The check on arrival: the recomputed hashes are the expected ones. The hashes
\* of a sub-manifest and of a file chunk are of different domains (dsep) and
\* never equal.
HashesMatch(f, id, src, p) ==
    /\ state_sync_chunk_type(src).kind = state_sync_chunk_type(id).kind
    /\ RecomputedHashes(f, src, p) = ExpectedHashes(f, id)

\* Faulty variant: a mismatch discards every chunk fetched so far.
AfterMismatch_DropsSiblings(f, id) ==
    [f EXCEPT !.verified = {}, !.refetch = @ \cup f.verified \cup {id}]
\* HashMismatch: the chunk is discarded, to be fetched again.
AfterMismatch(f, id) == [f EXCEPT !.refetch = @ \cup {id}]
AfterMatch(f, id) == [f EXCEPT !.verified = @ \cup {id}, !.refetch = @ \ {id}]

Fetching(f) ==
    /\ fetch' = Some(f)
    /\ UNCHANGED <<chunkVars, versionVars, file_group_chunks, groupVars, manifestVars,
                   codecVars, sharingVars, hashVars, builderVars, receiverVars, accessVars>>
\* The manifest of the state is at hand, verified; its chunks are to be fetched.
StartFetch(version) ==
    /\ ~fetch.some
    /\ Fetching([manifest |-> compute_manifest(version, FetchedFiles, DEFAULT_CHUNK_SIZE),
                 meta_manifest |-> meta_manifest_of_length(version, FetchedEncodedLen),
                 groups |-> FetchedGroups,
                 verified |-> {}, refetch |-> {}, last |-> None])
\* What was sent for chunk id arrives: the bytes of chunk src, part p altered.
Arrive(id, src, p) ==
    /\ fetch.some
    /\ id \in FetchedIds(fetch.val) \ fetch.val.verified
    /\ LET f == [fetch.val EXCEPT !.last = Some([id |-> id, genuine |-> src = id /\ p = 0])]
       IN  IF HashesMatch(f, id, src, p)
           THEN Fetching(AfterMatch(f, id))
           ELSE Fetching(AfterMismatch(f, id))

NextFetch ==
    \/ /\ ~fetch.some
       /\ \E version \in {CURRENT_STATE_SYNC_VERSION, MAX_SUPPORTED_STATE_SYNC_VERSION} :
            StartFetch(version)
    \/ /\ fetch.some
       /\ \E id, src \in FetchedIds(fetch.val) :
            \E p \in 0..Len(ExpectedHashes(fetch.val, src)) : Arrive(id, src, p)
SpecFetch == Init /\ [][NextFetch]_vars

\* The chunk that arrived last was genuine and the one asked for.
LastGenuine(f) == f.last.val.genuine
\* A chunk is verified or to be fetched again, never both, and what arrived last
\* is verified exactly if it was genuine.
FetchedAsChecked ==
    fetch.some =>
        LET f == fetch.val
        IN  /\ f.verified \cap f.refetch = {}
            /\ f.verified \cup f.refetch \subseteq FetchedIds(f)
            /\ f.last.some => (f.last.val.id \in f.verified <=> LastGenuine(f))
            /\ f.last.some => (f.last.val.id \in f.refetch <=> ~LastGenuine(f))
\* An arrival touches its own chunk only: it is not one of a verified chunk, the
\* verified chunks stay verified, and a failed one adds just itself to the chunks
\* to fetch again.
MismatchIsLocal ==
    (fetch.some /\ fetch'.some /\ fetch' # fetch) =>
        LET f == fetch.val
            g == fetch'.val
            id == g.last.val.id
        IN  /\ id \notin f.verified
            /\ f.verified \subseteq g.verified
            /\ g.verified \ {id} = f.verified
            /\ g.refetch \ {id} = f.refetch \ {id}
            /\ g.manifest = f.manifest /\ g.meta_manifest = f.meta_manifest
                                       /\ g.groups = f.groups

\* C21: a sub-manifest, file or file group chunk that fails its hash check on
\* arrival is the only one discarded and fetched again; every chunk verified
\* before stays verified and is not fetched again; chunks arriving in any order
\* are each checked against their own expected hash.
C21_MismatchIsLocal ==
    []FetchedAsChecked /\ [][MismatchIsLocal]_vars
\* A file group chunk with one of its files altered has just failed, while a
\* sub-manifest and a file chunk, verified before it, still are.
C21_Witness ==
    /\ fetch.some
    /\ fetch.val.last = Some([id |-> FILE_GROUP_CHUNK_ID_OFFSET, genuine |-> FALSE])
    /\ fetch.val.refetch = {FILE_GROUP_CHUNK_ID_OFFSET}
    /\ {MANIFEST_CHUNK_ID_OFFSET, AsU32(3)} \subseteq fetch.val.verified

====
